---- MODULE Spec2Model ----
(***************************************************************************)
(* A model of the reporting job of the repository: the message chunker of  *)
(* handle_send_message_by_thread, the event aggregator parse_export_data / *)
(* handle_export_event, the report handlers with build_analytics_message, *)
(* the run of handle_summarizes_user_interactions with its sends, sleeps   *)
(* and clean-up, and the dates of the reports ("src/src/test copy.py"),    *)
(* and the formatters and helpers of "src/src/utils copy.py" they call.    *)
(*                                                                         *)
(* In the chunker the message is a sequence of one-character strings, and  *)
(* Python's 0-based half-open slice s[a:b] is Slice(s, a, b).  Elsewhere a *)
(* Python str is a TLA+ string.  Python's None is the reserved string      *)
(* None, which no input holds and which is also what an f-string renders   *)
(* None as; a key that a dict does not hold has the reserved value Absent. *)
(* An optional object (a ProjectInfo or None) is a sequence of length 0 or *)
(* 1, and a dict is the sequence of its values in insertion order.         *)
(***************************************************************************)
EXTENDS Integers, Sequences, FiniteSets, TLC

VARIABLES
    message_str,  \* handle_send_message_by_thread: the text being split
    i,            \* handle_send_message_by_thread: start of the next chunk
    sent,         \* the "text" of every threaded message sent so far, in order
    pc_send,      \* "idle" | "loop" (at the while test) | "done" (loop left)
    file_no,      \* parse_export_data: position of json_file in extracted_file_paths
    index,        \* parse_export_data: enumerate index of the last record read
    user_store,   \* parse_export_data: the UserActivityStore
    consumed,     \* the records read so far, each with its place and its key
    pc_parse,     \* "idle" | "loop" | "returned" | "raised"
    activities,   \* the list parse_export_data returned
    raised_on,    \* the record on which handle_export_event raised, if any
    input,        \* the records of each file, when the input is fixed beforehand
    run,          \* which call of parse_export_data on that input this is
    first_activities, \* the list the first call returned
    fmt_fn,       \* the formatter called on its own
    fmt_args,     \* its arguments
    fmt_result,   \* what it returned
    pc_fmt,       \* "idle" | "call" | "done"
    period,       \* the report handler running: "daily" | "weekly"
    current_fetch,     \* what each query of the current period came to
    comparison_fetch,  \* what each query of the comparison period came to
    metrics_data,      \* the ReportMetrics of the current period, once fetched
    prev_period_metrics_data,  \* that of the comparison period
    message,      \* the report body, as the sequence of its lines
    template,     \* what the handler returned
    pc_report,    \* "idle" | "try" | "else" | "build" | "built" | "returned"
    data,         \* handle_summarizes_user_interactions: the parsed user list
    users_thread, \* handle_send_daily_users: email -> "ts" of its message
    user_no,      \* position of user_activity in the list being iterated
    log,          \* every sleep, send and clean-up of the run, in order
    raising,      \* whether an exception is propagating out of the function
    pc_job,       \* where handle_summarizes_user_interactions stands
    today,        \* the day datetime.today() and datetime.now() give
    date_call,    \* the function computing dates, with its week_offset
    week,         \* what get_start_end_of_week_by_offset returned
    periods,      \* the (start_date, end_date) of each period of a handler
    asked,        \* the dates each query of each period was asked for
    pc_dates      \* "idle" | "call" | "current" | "comparison" | "done"

sendVars == <<message_str, i, sent, pc_send>>

rerunVars == <<input, run, first_activities>>

formatVars == <<fmt_fn, fmt_args, fmt_result, pc_fmt>>

reportVars ==
    <<period, current_fetch, comparison_fetch, metrics_data,
      prev_period_metrics_data, message, template, pc_report>>

jobVars == <<data, users_thread, user_no, log, raising, pc_job>>

dateVars == <<today, date_call, week, periods, asked, pc_dates>>

callVars == <<formatVars, reportVars, jobVars, dateVars>>

parseVars ==
    <<file_no, index, user_store, consumed, pc_parse, activities, raised_on,
      input, run, first_activities>>

vars == <<message_str, i, sent, pc_send,
          file_no, index, user_store, consumed, pc_parse, activities, raised_on,
          input, run, first_activities,
          fmt_fn, fmt_args, fmt_result, pc_fmt,
          period, current_fetch, comparison_fetch, metrics_data,
          prev_period_metrics_data, message, template, pc_report,
          data, users_thread, user_no, log, raising, pc_job,
          today, date_call, week, periods, asked, pc_dates>>

None == "None"

Absent == "<absent>"

NL == "\n"

(***************************************************************************)
(* Bounds of the model.  SLACK_MESSAGE_LIMIT is 3000 in the source         *)
(* ("src/src/test copy.py" line 37); the splitting loop only compares and  *)
(* adds it, so the model runs it scaled down, with messages a few times    *)
(* longer than the limit.                                                  *)
(***************************************************************************)
SLACK_MESSAGE_LIMIT == 3

MaxLen == 7

Chars == {"a", "b", NL}

Min(a, b) == IF a < b THEN a ELSE b

SetMax(S) == CHOOSE x \in S : \A y \in S : y <= x

\* Python s[a:b] for 0 <= a, b (clipped to the string as Python clips it).
Slice(s, a, b) == SubSeq(s, a + 1, Min(b, Len(s)))

\* Python `c in s`.
Contains(s, c) == \E k \in 1..Len(s) : s[k] = c

\* Python s.find(c, start, end): the lowest index in [start, end) holding c, or -1.
Find(s, c, start, end) ==
    LET P == {p \in start..(Min(end, Len(s)) - 1) : s[p + 1] = c}
    IN  IF P = {} THEN -1 ELSE CHOOSE x \in P : \A y \in P : x <= y

\* Python s.rfind(c, start, end): the highest index in [start, end) holding c, or -1.
RFind(s, c, start, end) ==
    LET P == {p \in start..(Min(end, Len(s)) - 1) : s[p + 1] = c}
    IN  IF P = {} THEN -1 ELSE SetMax(P)

\* The window bound of the loop, before it is moved back to a line boundary.
WindowEndOffByOne(s, start) == Min(start + SLACK_MESSAGE_LIMIT + 1, Len(s))

WindowEndShort(s, start) == Min(start + SLACK_MESSAGE_LIMIT - 1, Len(s))

WindowEnd(s, start) == Min(start + SLACK_MESSAGE_LIMIT, Len(s))

\* The position just after the newline the boundary is moved back to.
LineBoundaryNoStep(s, start, end) == RFind(s, NL, start, end)

LineBoundaryFirst(s, start, end) == Find(s, NL, start, end) + 1

LineBoundary(s, start, end) == RFind(s, NL, start, end) + 1

\* Whether the boundary is moved back to a line boundary.
SplitsAtLineAlways(s, start, end) == Contains(Slice(s, start, end), NL)

SplitsAtLine(s, start, end) ==
    end < Len(s) /\ Contains(Slice(s, start, end), NL)

\* end_index of one iteration of the loop that starts at `start`.
EndIndex(s, start) ==
    LET end_index == WindowEnd(s, start)
    IN  IF SplitsAtLine(s, start, end_index)
        THEN LineBoundary(s, start, end_index)
        ELSE end_index

\* The text of the message sent by one iteration.
MessageStripped(s, start, end) ==
    LET m == Slice(s, start, end)
    IN  IF Len(m) > 0 /\ m[Len(m)] = NL THEN SubSeq(m, 1, Len(m) - 1) ELSE m

Message(s, start, end) == Slice(s, start, end)

RECURSIVE SeqsUpTo(_)
SeqsUpTo(n) ==
    IF n = 0 THEN {<<>>}
    ELSE LET S == SeqsUpTo(n - 1)
         IN  S \cup {Append(s, c) : s \in {t \in S : Len(t) = n - 1}, c \in Chars}

Messages == SeqsUpTo(MaxLen)

----------------------------------------------------------------------------
(* handle_send_message_by_thread: the splitting loop over one message_str. *)

\* parse_export_data is not running.
FormatIdle ==
    /\ fmt_fn = ""
    /\ fmt_args = <<>>
    /\ fmt_result = ""
    /\ pc_fmt = "idle"

ReportIdle ==
    /\ period = ""
    /\ current_fetch = <<>>
    /\ comparison_fetch = <<>>
    /\ metrics_data = <<>>
    /\ prev_period_metrics_data = <<>>
    /\ message = <<>>
    /\ template = <<>>
    /\ pc_report = "idle"

JobIdle ==
    /\ data = <<>>
    /\ users_thread = <<>>
    /\ user_no = 0
    /\ log = <<>>
    /\ raising = FALSE
    /\ pc_job = "idle"

DateIdle ==
    /\ today = 0
    /\ date_call = <<>>
    /\ week = <<>>
    /\ periods = <<>>
    /\ asked = <<>>
    /\ pc_dates = "idle"

CallsIdle == FormatIdle /\ ReportIdle /\ JobIdle /\ DateIdle

ParseIdle ==
    /\ file_no = 1
    /\ index = 0
    /\ user_store = <<>>
    /\ consumed = <<>>
    /\ pc_parse = "idle"
    /\ activities = <<>>
    /\ raised_on = <<>>
    /\ input = <<>>
    /\ run = 1
    /\ first_activities = <<>>

ChunkInit ==
    /\ message_str \in Messages
    /\ i = 0
    /\ sent = <<>>
    /\ pc_send = "loop"
    /\ ParseIdle
    /\ CallsIdle

\* One iteration of `while i < len(message_str)`: compute the boundary, send
\* the chunk, advance i.
SendChunk ==
    /\ pc_send = "loop"
    /\ i < Len(message_str)
    /\ LET end_index == EndIndex(message_str, i)
       IN  /\ sent' = Append(sent, Message(message_str, i, end_index))
           /\ i' = end_index
    /\ UNCHANGED <<message_str, pc_send>>
    /\ UNCHANGED parseVars
    /\ UNCHANGED callVars

\* The while test fails: the loop is left.
LoopExit ==
    /\ pc_send = "loop"
    /\ ~(i < Len(message_str))
    /\ pc_send' = "done"
    /\ UNCHANGED <<message_str, i, sent>>
    /\ UNCHANGED parseVars
    /\ UNCHANGED callVars

ChunkNext == SendChunk \/ LoopExit

ChunkSpec == ChunkInit /\ [][ChunkNext]_vars

\* The loop is sequential code: an enabled iteration is eventually executed.
ChunkFairSpec == ChunkSpec /\ WF_vars(ChunkNext)

----------------------------------------------------------------------------
(* Properties of the splitting loop.                                       *)

RECURSIVE Concat(_)
Concat(ss) == IF ss = <<>> THEN <<>> ELSE Head(ss) \o Concat(Tail(ss))

\* The position in message_str where the k-th sent chunk starts: the total
\* length of the chunks sent before it.
RECURSIVE Offset(_)
Offset(k) == IF k <= 1 THEN 0 ELSE Offset(k - 1) + Len(sent[k - 1])

\* The limit-sized window of message_str that starts at position st.
Window(st) == Slice(message_str, st, st + SLACK_MESSAGE_LIMIT)

CeilDiv(n, d) == (n + d - 1) \div d

\* C1: the chunks sent so far, concatenated in the order sent, are exactly the
\* part of the message before i; once the loop is left they are the whole
\* message (nothing lost, duplicated or reordered).
ChunksRoundTrip ==
    /\ Concat(sent) = Slice(message_str, 0, i)
    /\ pc_send = "done" => Concat(sent) = message_str

ChunksRoundTripWitness ==
    /\ pc_send = "done"
    /\ Len(sent) >= 3
    /\ \E k \in 1..Len(sent) : Contains(sent[k], NL) /\ Len(sent[k]) < SLACK_MESSAGE_LIMIT

\* C2: every chunk is at most SLACK_MESSAGE_LIMIT long, and a chunk whose
\* window holds no newline while the text continues beyond the window is
\* exactly SLACK_MESSAGE_LIMIT long.
ChunkSizeBound ==
    \A k \in 1..Len(sent) :
        /\ Len(sent[k]) <= SLACK_MESSAGE_LIMIT
        /\ (/\ ~Contains(Window(Offset(k)), NL)
            /\ Offset(k) + SLACK_MESSAGE_LIMIT < Len(message_str))
           => Len(sent[k]) = SLACK_MESSAGE_LIMIT

ChunkSizeBoundWitness ==
    \E k \in 1..Len(sent) :
        /\ k > 1
        /\ ~Contains(Window(Offset(k)), NL)
        /\ Offset(k) + SLACK_MESSAGE_LIMIT < Len(message_str)
        /\ Len(sent[k]) = SLACK_MESSAGE_LIMIT
        /\ Contains(message_str, NL)

\* C3: the loop terminates, and every iteration moves i strictly forward
\* (every chunk is non-empty), also when the boundary is moved back to just
\* after the last newline of the window.
ChunkerTerminates ==
    /\ <>(pc_send = "done")
    /\ [][sent' # sent => (i' > i /\ Len(sent'[Len(sent')]) > 0)]_vars

ChunkerTerminatesWitness ==
    /\ pc_send = "done"
    /\ Len(sent) >= 2
    /\ \E k \in 1..Len(sent) :
        /\ Offset(k) + SLACK_MESSAGE_LIMIT < Len(message_str)
        /\ Len(sent[k]) = 1
        /\ sent[k] = <<NL>>

\* C4 as claimed: every input no longer than the limit, the empty one
\* included, gives exactly one chunk.
OneChunkForShortInput ==
    (pc_send = "done" /\ Len(message_str) <= SLACK_MESSAGE_LIMIT)
        => Len(sent) = 1

\* C4 as amended: a non-empty input no longer than the limit gives exactly one
\* chunk, the input itself, with or without newlines; the empty input gives
\* no chunk at all.
ShortInputChunks ==
    (pc_send = "done" /\ Len(message_str) <= SLACK_MESSAGE_LIMIT)
        => IF Len(message_str) = 0
           THEN sent = <<>>
           ELSE sent = <<message_str>>

ShortInputChunksWitness ==
    /\ pc_send = "done"
    /\ Len(message_str) = SLACK_MESSAGE_LIMIT
    /\ Contains(message_str, NL)
    /\ message_str[Len(message_str)] # NL
    /\ Len(sent) = 1

\* C5: a chunk that is not the last one and whose window holds a newline ends
\* with a newline, and that newline is the last one of its window.
LineBoundaryPreference ==
    \A k \in 1..Len(sent) :
        LET st == Offset(k)
            en == st + Len(sent[k])
        IN  (en < Len(message_str) /\ Contains(Window(st), NL))
            => /\ Len(sent[k]) > 0
               /\ sent[k][Len(sent[k])] = NL
               /\ ~Contains(Slice(message_str, en, st + SLACK_MESSAGE_LIMIT), NL)

LineBoundaryPreferenceWitness ==
    \E k \in 1..Len(sent) :
        LET st == Offset(k)
            en == st + Len(sent[k])
        IN  /\ en < Len(message_str)
            /\ Len(sent[k]) >= 2
            /\ Contains(SubSeq(sent[k], 1, Len(sent[k]) - 1), NL)
            /\ sent[k][Len(sent[k])] = NL
            /\ Len(sent[k]) < SLACK_MESSAGE_LIMIT

\* C6: a non-empty input without any newline, of length n, is sent as
\* ceil(n / limit) chunks, each of length limit except the last, which holds
\* the remaining n - limit * (count - 1) characters.
NoNewlineChunks ==
    (pc_send = "done" /\ Len(message_str) > 0 /\ ~Contains(message_str, NL))
        => LET n == Len(message_str)
               count == CeilDiv(n, SLACK_MESSAGE_LIMIT)
           IN  /\ Len(sent) = count
               /\ \A k \in 1..Len(sent) :
                    Len(sent[k]) = IF k < count
                                   THEN SLACK_MESSAGE_LIMIT
                                   ELSE n - SLACK_MESSAGE_LIMIT * (count - 1)

NoNewlineChunksWitness ==
    /\ pc_send = "done"
    /\ ~Contains(message_str, NL)
    /\ Len(message_str) = 2 * SLACK_MESSAGE_LIMIT + 1
    /\ Len(sent) = 3
    /\ Len(sent[3]) = 1

----------------------------------------------------------------------------
(* Formatters of "src/src/utils copy.py".                                  *)
(*                                                                         *)
(* An argument of a formatter is PyNone or Number(value).  The value of a  *)
(* duration is in tenths of a second, the value of a byte count is the     *)
(* tuple of its base-1024 digits, lowest first (1024^4 is beyond TLC's     *)
(* integers), and the value of a metric is an integer.                     *)

PyNone == [type |-> "NoneType"]

Number(value) == [type |-> "number", value |-> value]

\* Python round() of the rational n / d (d > 0, n >= 0): to the nearest
\* integer, a tie to the even one.
RoundHalfEven(n, d) ==
    LET q == n \div d
        r == n % d
    IN  IF 2 * r < d THEN q
        ELSE IF 2 * r > d THEN q + 1
        ELSE IF q % 2 = 0 THEN q ELSE q + 1

\* bytes \div 1024^k, computed without forming 1024^k.
RECURSIVE Shift(_, _)
Shift(bytes, k) == IF k = 0 THEN bytes ELSE Shift(bytes \div 1024, k - 1)

\* The number of base-1024 digits kept of a byte count.
NumDigits == 5

\* A Python int below 2^31 as base-1024 digits.
ToDigits(n) == [k \in 1..NumDigits |-> Shift(n, k - 1) % 1024]

\* The integer the digits above 1024^e make: digits \div 1024^e.
RECURSIVE IntPart(_, _)
IntPart(digits, e) ==
    IF e >= Len(digits) THEN 0
    ELSE digits[e + 1] + 1024 * IntPart(digits, e + 1)

\* 100 times a base-1024 number, as base-1024 digits with one digit more.
RECURSIVE Times100(_, _)
Times100(digits, carry) ==
    IF digits = <<>> THEN <<carry>>
    ELSE LET t == Head(digits) * 100 + carry
         IN  <<t % 1024>> \o Times100(Tail(digits), t \div 1024)

\* f"{(bytes / 1024**e):.2f}": the quotient is exact in a float, and the
\* format rounds it to hundredths, a tie to the even one.
Fixed2(digits, e) ==
    LET scaled == Times100(SubSeq(digits, 1, e), 0)
        floor100 == IntPart(digits, e) * 100 + scaled[e + 1]
        top == IF e = 0 THEN 0 ELSE scaled[e]
        lower == \E j \in 1..(e - 1) : scaled[j] # 0
        h == IF top > 512 \/ (top = 512 /\ lower) THEN floor100 + 1
             ELSE IF top = 512 /\ floor100 % 2 = 1 THEN floor100 + 1
             ELSE floor100
        frac == h % 100
    IN  ToString(h \div 100) \o "." \o
        (IF frac < 10 THEN "0" ELSE "") \o ToString(frac)

units == <<"TB", "GB", "MB", "KB">>

\* sizes[i] = 1024^SizeExp(i).
SizeExp(u) == 5 - u

\* bytes > 1024^e, and bytes >= 1024^e (the test of line 103).
ReachesStrictly(digits, e) ==
    \/ \E j \in (e + 2)..Len(digits) : digits[j] # 0
    \/ digits[e + 1] > 1
    \/ digits[e + 1] = 1 /\ \E j \in 1..e : digits[j] # 0

Reaches(digits, e) == \E j \in (e + 1)..Len(digits) : digits[j] # 0

\* format_bytes: None for None or 0, else "<bytes / sizes[i]:.2f> <unit>" for
\* the first i with bytes >= sizes[i], else "<bytes> B".
format_bytes(bytes) ==
    IF bytes.type = "NoneType" \/ \A j \in 1..Len(bytes.value) : bytes.value[j] = 0
    THEN None
    ELSE LET reached == {u \in 1..Len(units) : Reaches(bytes.value, SizeExp(u))}
         IN  IF reached = {}
             THEN ToString(IntPart(bytes.value, 0)) \o " B"
             ELSE LET u == CHOOSE x \in reached : \A y \in reached : x <= y
                  IN  Fixed2(bytes.value, SizeExp(u)) \o " " \o units[u]

\* The minutes left unreduced, and minutes % 60 (line 17).
MinutesNotReduced(minutes) == minutes

MinutesOfHour(minutes) == minutes % 60

\* The test of the seconds segment: seconds > 0 or time_string == "".
SecondsShown(tenths, time_string) == tenths > 0 \/ time_string = ""

\* seconds_to_readable_time, on a number of seconds given in tenths.
seconds_to_readable_time(seconds) ==
    IF seconds.type = "NoneType" \/ seconds.value = 0 THEN None
    ELSE LET minutes0 == seconds.value \div 600
             hours == minutes0 \div 60
             secs == seconds.value % 600
             minutes == MinutesOfHour(minutes0)
             h_part == IF hours > 0 THEN ToString(hours) \o "h" ELSE ""
             m_part == IF minutes > 0 THEN ToString(minutes) \o "m" ELSE ""
             hm == h_part \o m_part
         IN  IF SecondsShown(secs, hm)
             THEN hm \o ToString(RoundHalfEven(secs, 10)) \o "s"
             ELSE hm

\* The glyphs of the change markers: U+279A, U+2798 and U+2248.
ARROW_UP == "<U+279A>"

ARROW_DOWN == "<U+2798>"

ALMOST_EQUAL == "<U+2248>"

\* `value is None`, and Python's `not value` of None or a number.
NotNoneOnly(value) == value.type = "NoneType"

Not(value) == value.type = "NoneType" \/ value.value = 0

\* f"{x:.1f}" of the rational n / d (n >= 0, d > 0).
Fixed1(n, d) ==
    LET h == RoundHalfEven(n * 10, d)
    IN  ToString(h \div 10) \o "." \o ToString(h % 10)

\* difference >= 0, and difference >= 0.1 (line 43), for difference = num / den
\* with den > 0.
AtLeastZero(num, den) == num >= 0

AtLeastTenth(num, den) == 10 * num >= den

\* format_percentage_change.  difference is the rational num / den.
format_percentage_change(daily_value, prev_period_value) ==
    IF Not(daily_value) \/ Not(prev_period_value) THEN None
    ELSE IF prev_period_value.value = 0
    THEN IF daily_value.value > 0 THEN "(" \o ARROW_UP \o "100%)"
         ELSE IF daily_value.value < 0 THEN "(" \o ARROW_DOWN \o "100%)"
         ELSE "(" \o ALMOST_EQUAL \o "0%)"
    ELSE LET sign == IF prev_period_value.value < 0 THEN -1 ELSE 1
             num == sign * (daily_value.value - prev_period_value.value) * 100
             den == sign * prev_period_value.value
         IN  IF AtLeastTenth(num, den)
             THEN "(" \o ARROW_UP \o Fixed1(num, den) \o "%)"
             ELSE IF num < 0
             THEN "(" \o ARROW_DOWN \o Fixed1(-num, den) \o "%)"
             ELSE "(" \o ALMOST_EQUAL \o "0%)"

\* float(s) of the numeric strings the inputs hold, in tenths of a second.
float(str) ==
    CASE str = "90" -> Number(900)
      [] str = "3661" -> Number(36610)
      [] str = "0" -> Number(0)

----------------------------------------------------------------------------
(* The values the export stream holds.                                     *)

user_submit_prompt == "user_submit_prompt"

user_click_prompt_suggest == "user_click_prompt_suggest"

file_export_succeeded == "file_export_succeeded"

\* A Python list, and a str by what json.loads makes of it.
PyList(items) == [type |-> "list", items |-> items]

PyStr(decoded) == [type |-> "str", loads |-> decoded]

NoFileInfo == [type |-> "absent"]

\* A value held for 'filesize', by what int() makes of it: an int, or the
\* exception int() raises (ValueError for a str that is no integer literal,
\* TypeError for None).
IntValue(n) == [int |-> "int", value |-> n]

NotNumeric == [int |-> "ValueError"]

NullSize == [int |-> "TypeError"]

\* A file descriptor (a dict), and a list element that is a str.
File(name, size) ==
    [type |-> "dict", filename |-> name, filesize |-> <<IntValue(size)>>]

FileOfSize(name, size) ==
    [type |-> "dict", filename |-> name, filesize |-> <<size>>]

\* A descriptor with no 'filesize' key.
FileNoSize(name) == [type |-> "dict", filename |-> name, filesize |-> <<>>]

FileName(name) == [type |-> "str", text |-> name]

\* What json.loads makes of a str that is not JSON, and a decoded JSON object.
Undecodable == [type |-> "JSONDecodeError"]

PyDict == [type |-> "dict"]

\* projectFileInfo as a decoded list, and as a JSON-encoded string.
FileInfo1 == PyList(<<File("x.mp4", 500)>>)

FileInfo2 == PyStr(PyList(<<File("y.mov", 2048), File("z.wav", 1152)>>))

\* Descriptors of a file of size 0 and of a file with no size.
EmptyFiles == PyList(<<File("x.mp4", 0), FileNoSize("y.mov")>>)

\* Malformed projectFileInfo: a str that is not JSON, a JSON object, a list
\* of file names, a filesize that is a word, and a filesize that is null.
BadJson == PyStr(Undecodable)

NotAList == PyStr(PyDict)

ListOfNames == PyList(<<FileName("x.mp4")>>)

WordSize == PyList(<<File("x.mp4", 500), FileOfSize("y.mov", NotNumeric)>>)

NoSize == PyStr(PyList(<<FileOfSize("y.mov", NullSize)>>))

NoProps ==
    [projectId |-> Absent, projectName |-> Absent, prompt |-> Absent,
     promptSuggest |-> Absent, layout |-> Absent, exportType |-> Absent,
     outputDuration |-> Absent, exportFileName |-> Absent,
     projectFileInfo |-> NoFileInfo]

\* The properties of each kind of event of the inputs.
PayloadOf(shape) ==
    CASE shape = "prompt_a" ->
            [type |-> user_submit_prompt, props |-> [NoProps EXCEPT !.prompt = "a"]]
      [] shape = "prompt_b" ->
            [type |-> user_submit_prompt, props |-> [NoProps EXCEPT !.prompt = "b"]]
      [] shape = "suggest" ->
            [type |-> user_click_prompt_suggest,
             props |-> [NoProps EXCEPT !.promptSuggest = "s", !.prompt = "ignored"]]
      [] shape = "export_1" ->
            [type |-> file_export_succeeded,
             props |-> [NoProps EXCEPT !.layout = "landscape", !.exportType = "mp4",
                                       !.outputDuration = "90",
                                       !.exportFileName = "out.mp4"]]
      [] shape = "export_2" ->
            [type |-> file_export_succeeded,
             props |-> [NoProps EXCEPT !.exportType = "fcpxml",
                                       !.exportFileName = "out.fcpxml"]]
      [] shape = "other" ->
            [type |-> "project_opened", props |-> [NoProps EXCEPT !.prompt = "a"]]

Record(data_type, who, shape, project_id, file_info) ==
    [data_type |-> data_type,
     user_id |-> who.user_id,
     amplitude_id |-> who.amplitude_id,
     event_type |-> PayloadOf(shape).type,
     event_properties |->
        [PayloadOf(shape).props EXCEPT !.projectId = project_id,
                                       !.projectName = "Project " \o project_id,
                                       !.projectFileInfo = file_info]]

\* Two signed-in users, an anonymous one with an amplitude_id (its user_id is
\* the empty string), and a record with neither user_id nor amplitude_id.
KnownUser == [user_id |-> "u1@mail", amplitude_id |-> "1"]

OtherUser == [user_id |-> "u2@mail", amplitude_id |-> "2"]

AmplitudeUser == [user_id |-> "", amplitude_id |-> "1"]

Nobody == [user_id |-> Absent, amplitude_id |-> Absent]

\* The records an input file may hold.
Records ==
    {Record("event", KnownUser, sf[1], "p1", sf[2]) :
        sf \in {<<"prompt_a", FileInfo1>>, <<"prompt_b", NoFileInfo>>,
                <<"suggest", FileInfo2>>, <<"export_1", FileInfo2>>,
                <<"export_2", NoFileInfo>>,
                <<"prompt_a", BadJson>>, <<"export_1", NotAList>>,
                <<"prompt_b", ListOfNames>>, <<"export_2", WordSize>>,
                <<"suggest", NoSize>>, <<"other", ListOfNames>>}}
    \cup {Record("event", KnownUser, sf[1], "p2", sf[2]) :
        sf \in {<<"prompt_a", NoFileInfo>>, <<"prompt_b", FileInfo2>>,
                <<"export_1", FileInfo1>>, <<"prompt_a", EmptyFiles>>}}
    \cup {Record("event", Nobody, sf[1], "p1", sf[2]) :
        sf \in {<<"prompt_a", NoFileInfo>>, <<"export_2", FileInfo1>>,
                <<"other", NoFileInfo>>}}
    \cup {Record("event", AmplitudeUser, sf[1], "p1", sf[2]) :
        sf \in {<<"prompt_b", FileInfo1>>, <<"other", FileInfo1>>}}
    \cup {Record("event", OtherUser, "prompt_a", "p1", FileInfo1)}
    \cup {Record("identify", Nobody, "prompt_a", "p1", FileInfo1)}

\* The files handed to parse_export_data.
extracted_file_paths == <<"/tmp/export_data/1.json", "/tmp/export_data/2.json">>

MaxEvents == 3

----------------------------------------------------------------------------
(* models.project_model, models.export_model, models.user_activity_model:  *)
(* the data model of the aggregator.                                       *)

ProjectInfo(project_id, project_name, file_info, prompts, exports) ==
    [project_id |-> project_id, project_name |-> project_name,
     file_info |-> file_info, prompts |-> prompts, exports |-> exports]

ExportInfo(export_layout, export_type, export_file_name, output_duration) ==
    [export_layout |-> export_layout, export_type |-> export_type,
     export_file_name |-> export_file_name, output_duration |-> output_duration]

\* ProjectInfo.add_prompt, ProjectInfo.add_export: append.
add_prompt(project, prompt) ==
    [project EXCEPT !.prompts = Append(@, prompt)]

add_export(project, export_info) ==
    [project EXCEPT !.exports = Append(@, export_info)]

UserActivity(email) == [email |-> email, projects |-> <<>>]

\* user_activity.projects.get(project_id): the project of that id, if any.
projects_get(user_activity, project_id) ==
    SelectSeq(user_activity.projects, LAMBDA p : p.project_id = project_id)

\* UserActivity.add_project: projects[project.project_id] = project; a key the
\* dict holds keeps its place, a new key goes last.
add_project(user_activity, project) ==
    IF projects_get(user_activity, project.project_id) # <<>>
    THEN [user_activity EXCEPT !.projects =
            [k \in 1..Len(@) |->
                IF @[k].project_id = project.project_id THEN project ELSE @[k]]]
    ELSE [user_activity EXCEPT !.projects = Append(@, project)]

\* UserActivityStore.get_activity: the stored UserActivity of that key, else a
\* fresh empty one, which is not stored.
get_activity(store, user_id) ==
    LET found == SelectSeq(store, LAMBDA a : a.email = user_id)
    IN  IF found # <<>> THEN found[1] ELSE UserActivity(user_id)

\* UserActivityStore.add_activity: store[user_activity.email] = user_activity.
add_activity(store, user_activity) ==
    IF \E k \in 1..Len(store) : store[k].email = user_activity.email
    THEN [k \in 1..Len(store) |->
            IF store[k].email = user_activity.email THEN user_activity ELSE store[k]]
    ELSE Append(store, user_activity)

\* UserActivityStore.get_all_activities: the stored values, as a list.
get_all_activities(store) == store

----------------------------------------------------------------------------
(* handle_export_event and parse_export_data.                              *)

\* dict.get(key) and dict.get(key, default) on the value held for key.
Get(value) == IF value = Absent THEN None ELSE value

GetOr(value, default) == IF value = Absent THEN default ELSE value

\* Truth of a str or None.
Truthy(value) == value # None /\ value # ""

\* f"{file.get('filename')} ({format_bytes(int(file.get('filesize', 0)))})"
FileEntry(file) ==
    LET filesize == IF file.filesize = <<>> THEN 0 ELSE file.filesize[1].value
    IN  Get(file.filename) \o " (" \o format_bytes(Number(ToDigits(filesize))) \o ")"

\* The exception the entry of one list element raises, "none" if none:
\* file.get on a str is an AttributeError, then int() of the filesize.
ElementError(file) ==
    IF file.type # "dict" THEN "AttributeError"
    ELSE IF file.filesize # <<>> /\ file.filesize[1].int # "int"
    THEN file.filesize[1].int
    ELSE "none"

\* ", ".join(...)
RECURSIVE Join(_)
Join(entries) ==
    IF Len(entries) = 1 THEN entries[1]
    ELSE entries[1] \o ", " \o Join(Tail(entries))

\* event_properties.get("projectFileInfo", "[]")
RawFilesInfo(event_properties) ==
    IF event_properties.projectFileInfo.type = "absent"
    THEN PyStr(PyList(<<>>))
    ELSE event_properties.projectFileInfo

\* The exception the body of the try block raises, "none" if none: that of
\* json.loads, else that of the first list element that raises one.
FilesInfoError(event_properties) ==
    LET raw_files_info == RawFilesInfo(event_properties)
        files_info ==
            IF raw_files_info.type = "str" THEN raw_files_info.loads
            ELSE raw_files_info
    IN  IF files_info.type = "JSONDecodeError" THEN "JSONDecodeError"
        ELSE IF files_info.type = "list" /\ Len(files_info.items) > 0
        THEN LET bad == {k \in 1..Len(files_info.items) :
                            ElementError(files_info.items[k]) # "none"}
             IN  IF bad = {} THEN "none"
                 ELSE ElementError(files_info.items[
                        CHOOSE k \in bad : \A j \in bad : k <= j])
        ELSE "none"

\* except (json.JSONDecodeError, TypeError)
Caught(error) == error \in {"JSONDecodeError", "TypeError"}

\* handle_export_event raises: the try block lets the exception through.
Raises(event) ==
    LET error == FilesInfoError(event.event_properties)
    IN  error # "none" /\ ~Caught(error)

\* The try block of handle_export_event: project_files_info, when no
\* exception escapes it.
ProjectFilesInfo(event_properties) ==
    LET raw_files_info == RawFilesInfo(event_properties)
        files_info ==
            IF raw_files_info.type = "str" THEN raw_files_info.loads
            ELSE raw_files_info
    IN  IF FilesInfoError(event_properties) # "none" THEN None
        ELSE IF files_info.type = "list" /\ Len(files_info.items) > 0
        THEN Join([k \in 1..Len(files_info.items) |-> FileEntry(files_info.items[k])])
        ELSE None

\* The ProjectInfo a prompt-type event makes when the project is new.
NewPromptProjectEmpty(project_id, project_name, file_info, prompt) ==
    ProjectInfo(project_id, project_name, file_info, <<>>, <<>>)

NewPromptProject(project_id, project_name, file_info, prompt) ==
    ProjectInfo(project_id, project_name, file_info, <<prompt>>, <<>>)

\* The ProjectInfo an export-succeeded event makes when the project is new.
NewExportProject(project_id, project_name, file_info, export_info) ==
    ProjectInfo(project_id, project_name, file_info, <<>>, <<export_info>>)

\* The ExportInfo of an export-succeeded event.
ExportInfoOf(event_properties) ==
    LET ouput_duration_str == Get(event_properties.outputDuration)
        readable_duration ==
            IF Truthy(ouput_duration_str)
            THEN seconds_to_readable_time(float(ouput_duration_str))
            ELSE None
    IN  ExportInfo(Get(event_properties.layout),
                   Get(event_properties.exportType),
                   Get(event_properties.exportFileName),
                   readable_duration)

\* The prompt text of a prompt-type event.
PromptOf(event_type, event_properties) ==
    IF event_type = user_submit_prompt
    THEN Get(event_properties.prompt)
    ELSE Get(event_properties.promptSuggest)

\* The event types handled as a prompt.
IsPromptType(event_type) ==
    event_type \in {user_submit_prompt, user_click_prompt_suggest}

\* handle_export_event: the project the event makes or updates (a sequence of
\* one ProjectInfo), or None (the empty sequence).
handle_export_event(event, user_activity) ==
    LET event_type == Get(event.event_type)
        event_properties == event.event_properties
        project_id == Get(event_properties.projectId)
        project_name == Get(event_properties.projectName)
        project_files_info == ProjectFilesInfo(event_properties)
        existing == projects_get(user_activity, project_id)
    IN  IF IsPromptType(event_type)
        THEN LET prompt == PromptOf(event_type, event_properties)
             IN  IF existing # <<>>
                 THEN <<add_prompt([existing[1] EXCEPT !.file_info = project_files_info],
                                   prompt)>>
                 ELSE <<NewPromptProject(project_id, project_name,
                                         project_files_info, prompt)>>
        ELSE IF event_type = file_export_succeeded
        THEN LET export_info == ExportInfoOf(event_properties)
             IN  IF existing # <<>>
                 THEN <<add_export([existing[1] EXCEPT !.file_info = project_files_info],
                                   export_info)>>
                 ELSE <<NewExportProject(project_id, project_name,
                                         project_files_info, export_info)>>
        ELSE <<>>

\* The identity key of a record read at enumerate index `idx`.
IdentityKey(event, idx) ==
    IF Truthy(Get(event.user_id))
    THEN event.user_id
    ELSE "Anonymous (Amplitude ID-" \o GetOr(event.amplitude_id, ToString(idx)) \o ")"

\* Lines 646-648: the store after the record, given what handle_export_event
\* returned for it.
CommitDedented(store, user_activity, project) ==
    add_activity(store, IF project # <<>>
                        THEN add_project(user_activity, project[1])
                        ELSE user_activity)

\* A store that appends on every commit.
CommitAppended(store, user_activity, project) ==
    IF project # <<>>
    THEN Append(store, add_project(user_activity, project[1]))
    ELSE store

Commit(store, user_activity, project) ==
    IF project # <<>>
    THEN add_activity(store, add_project(user_activity, project[1]))
    ELSE store

\* The store after one record of the inner loop.
StoreAfter(store, event, idx) ==
    IF event.data_type # "event"
    THEN store
    ELSE LET user_id == IdentityKey(event, idx)
             user_activity == get_activity(store, user_id)
             project == handle_export_event(event, user_activity)
         IN  Commit(store, user_activity, project)

Init ==
    /\ file_no = 1
    /\ index = 0
    /\ user_store = <<>>
    /\ consumed = <<>>
    /\ pc_parse = "loop"
    /\ activities = <<>>
    /\ raised_on = <<>>
    /\ input = <<>>
    /\ run = 1
    /\ first_activities = <<>>
    /\ message_str = <<>>
    /\ i = 0
    /\ sent = <<>>
    /\ pc_send = "idle"
    /\ CallsIdle

\* The body of `for index, event in enumerate(data, start=1)` on one record:
\* the record is aggregated, or handle_export_event raises and the exception
\* leaves parse_export_data.
ParseStep(event) ==
    LET entry == [file |-> file_no, index |-> index + 1, event |-> event,
                  key |-> IF event.data_type # "event" THEN None
                          ELSE IdentityKey(event, index + 1)]
    IN  /\ index' = index + 1
        /\ IF event.data_type = "event" /\ Raises(event)
           THEN /\ pc_parse' = "raised"
                /\ raised_on' = <<entry>>
                /\ UNCHANGED <<user_store, consumed>>
           ELSE /\ user_store' = StoreAfter(user_store, event, index + 1)
                /\ consumed' = Append(consumed, entry)
                /\ UNCHANGED <<pc_parse, raised_on>>
        /\ UNCHANGED <<file_no, activities>>
        /\ UNCHANGED <<sendVars, callVars>>

\* One iteration of the inner loop, on the next record of the current file.
ParseRecord ==
    /\ pc_parse = "loop"
    /\ Len(consumed) < MaxEvents
    /\ \E event \in Records : ParseStep(event)
    /\ UNCHANGED rerunVars

\* The current file is exhausted and another follows: the enumeration starts
\* again on the next file.
NextFile ==
    /\ pc_parse = "loop"
    /\ file_no < Len(extracted_file_paths)
    /\ file_no' = file_no + 1
    /\ index' = 0
    /\ UNCHANGED <<user_store, consumed, pc_parse, activities, raised_on>>
    /\ UNCHANGED rerunVars
    /\ UNCHANGED <<sendVars, callVars>>

\* The last file is exhausted: return user_store.get_all_activities().
Return ==
    /\ pc_parse = "loop"
    /\ file_no = Len(extracted_file_paths)
    /\ pc_parse' = "returned"
    /\ activities' = get_all_activities(user_store)
    /\ UNCHANGED <<file_no, index, user_store, consumed, raised_on>>
    /\ UNCHANGED rerunVars
    /\ UNCHANGED <<sendVars, callVars>>

Next == ParseRecord \/ NextFile \/ Return

Spec == Init /\ [][Next]_vars

----------------------------------------------------------------------------
(* parse_export_data called twice on the same input files.                 *)

MaxReplayed == 3

\* The records of the replayed files.
ReplayRecords == {r \in Records : r.event_properties.projectFileInfo = FileInfo1}

RECURSIVE RecordSeqs(_)
RecordSeqs(n) ==
    IF n = 0 THEN {<<>>}
    ELSE {<<>>} \cup {<<r>> \o s : r \in ReplayRecords, s \in RecordSeqs(n - 1)}

\* The contents of the files: at most MaxReplayed records in all.
Inputs ==
    UNION {{<<f, g>> : g \in RecordSeqs(MaxReplayed - Len(f))} :
                f \in RecordSeqs(MaxReplayed)}

\* user_store = UserActivityStore(), whatever an earlier call left.
KeptStore(earlier) == earlier

FreshStore(earlier) == <<>>

RerunInit ==
    /\ input \in Inputs
    /\ run = 1
    /\ first_activities = <<>>
    /\ file_no = 1
    /\ index = 0
    /\ user_store = FreshStore(<<>>)
    /\ consumed = <<>>
    /\ pc_parse = "loop"
    /\ activities = <<>>
    /\ raised_on = <<>>
    /\ message_str = <<>>
    /\ i = 0
    /\ sent = <<>>
    /\ pc_send = "idle"
    /\ CallsIdle

\* One iteration of the inner loop, on the next record of the file.
ReadRecord ==
    /\ pc_parse = "loop"
    /\ index < Len(input[file_no])
    /\ ParseStep(input[file_no][index + 1])
    /\ UNCHANGED rerunVars

\* The file is exhausted and another follows.
EndOfFile ==
    /\ pc_parse = "loop"
    /\ index = Len(input[file_no])
    /\ file_no < Len(input)
    /\ file_no' = file_no + 1
    /\ index' = 0
    /\ UNCHANGED <<user_store, consumed, pc_parse, activities, raised_on>>
    /\ UNCHANGED rerunVars
    /\ UNCHANGED <<sendVars, callVars>>

\* The last file is exhausted: return user_store.get_all_activities().
ReturnActivities ==
    /\ pc_parse = "loop"
    /\ index = Len(input[file_no])
    /\ file_no = Len(input)
    /\ pc_parse' = "returned"
    /\ activities' = get_all_activities(user_store)
    /\ UNCHANGED <<file_no, index, user_store, consumed, raised_on>>
    /\ UNCHANGED rerunVars
    /\ UNCHANGED <<sendVars, callVars>>

\* parse_export_data is called again on the same files.
CallAgain ==
    /\ pc_parse = "returned"
    /\ run = 1
    /\ run' = 2
    /\ first_activities' = activities
    /\ user_store' = FreshStore(user_store)
    /\ file_no' = 1
    /\ index' = 0
    /\ consumed' = <<>>
    /\ activities' = <<>>
    /\ pc_parse' = "loop"
    /\ UNCHANGED <<input, raised_on>>
    /\ UNCHANGED <<sendVars, callVars>>

RerunNext == ReadRecord \/ EndOfFile \/ ReturnActivities \/ CallAgain

RerunSpec == RerunInit /\ [][RerunNext]_vars

----------------------------------------------------------------------------
(* Properties of the aggregator, stated over the records read so far.      *)

\* A record that is an event of one of the three recognized types.
Recognized(event) ==
    /\ event.data_type = "event"
    /\ event.event_type \in
        {user_submit_prompt, user_click_prompt_suggest, file_export_succeeded}

Emails(list) == {list[k].email : k \in 1..Len(list)}

\* The records read so far that are recognized events of identity `key` on
\* project `project_id`, in arrival order.
EventsOf(key, project_id) ==
    SelectSeq(consumed, LAMBDA h :
        /\ Recognized(h.event)
        /\ h.key = key
        /\ Get(h.event.event_properties.projectId) = project_id)

\* The prompt texts, in arrival order, of the prompt-type events among hs.
PromptTexts(hs) ==
    LET ps == SelectSeq(hs, LAMBDA h :
                h.event.event_type \in {user_submit_prompt, user_click_prompt_suggest})
    IN  [k \in 1..Len(ps) |->
            IF ps[k].event.event_type = user_submit_prompt
            THEN Get(ps[k].event.event_properties.prompt)
            ELSE Get(ps[k].event.event_properties.promptSuggest)]

\* The ExportInfo, in arrival order, of the export-succeeded events among hs.
ExportInfos(hs) ==
    LET es == SelectSeq(hs, LAMBDA h : h.event.event_type = file_export_succeeded)
    IN  [k \in 1..Len(es) |-> ExportInfoOf(es[k].event.event_properties)]

\* C7: the identities of the store, and of the returned list, are exactly the
\* identity keys of the recognized events read; an identity seen only in
\* other records is never committed.
IdentitiesAreRecognizedOnes ==
    LET keys == {consumed[k].key : k \in {j \in 1..Len(consumed) :
                                            Recognized(consumed[j].event)}}
    IN  /\ Emails(user_store) = keys
        /\ pc_parse = "returned" => Emails(activities) = keys

IdentitiesAreRecognizedOnesWitness ==
    /\ pc_parse = "returned"
    /\ Len(activities) >= 1
    /\ \E k \in 1..Len(consumed) :
        /\ consumed[k].event.data_type = "event"
        /\ ~Recognized(consumed[k].event)
        /\ consumed[k].key \notin Emails(activities)
    /\ \E k \in 1..Len(consumed) : consumed[k].event.data_type # "event"

\* C8: every project of every identity holds exactly the prompts of that
\* identity's prompt-type events on it and the ExportInfo of its
\* export-succeeded events on it, each in arrival order, and every recognized
\* event's project is there, exactly once.
AppendOnlyInOrder ==
    /\ \A a \in 1..Len(user_store) :
        \A p \in 1..Len(user_store[a].projects) :
            LET project == user_store[a].projects[p]
                hs == EventsOf(user_store[a].email, project.project_id)
            IN  /\ hs # <<>>
                /\ project.prompts = PromptTexts(hs)
                /\ project.exports = ExportInfos(hs)
    /\ \A k \in 1..Len(consumed) :
        Recognized(consumed[k].event) =>
            LET pid == Get(consumed[k].event.event_properties.projectId)
            IN  Cardinality({<<a, p>> \in (1..Len(user_store)) \X (1..MaxEvents) :
                    /\ user_store[a].email = consumed[k].key
                    /\ p <= Len(user_store[a].projects)
                    /\ user_store[a].projects[p].project_id = pid}) = 1

AppendOnlyInOrderWitness ==
    \E a \in 1..Len(user_store) :
        \E p \in 1..Len(user_store[a].projects) :
            /\ user_store[a].projects[p].prompts = <<"b", "a">>
            /\ user_store[a].projects[p].exports = <<>>

\* C9 as claimed: a project's file_info is the summary of the most recent
\* recognized event on it that carried file metadata (None if none did).
FileInfoOfLastCarrier ==
    \A a \in 1..Len(user_store) :
        \A p \in 1..Len(user_store[a].projects) :
            LET project == user_store[a].projects[p]
                carriers == SelectSeq(
                    EventsOf(user_store[a].email, project.project_id),
                    LAMBDA h : ProjectFilesInfo(h.event.event_properties) # None)
            IN  project.file_info =
                    IF carriers = <<>> THEN None
                    ELSE ProjectFilesInfo(
                            carriers[Len(carriers)].event.event_properties)

\* The identity key C10 claims for the record at overall position pos.
ClaimedKey(event, pos) ==
    IF event.user_id # Absent /\ event.user_id # ""
    THEN event.user_id
    ELSE "Anonymous (Amplitude ID-" \o
         (IF event.amplitude_id # Absent THEN event.amplitude_id ELSE ToString(pos))
         \o ")"

\* C10 as claimed: each event is keyed by its user_id, else by its
\* amplitude_id, else by its 1-based position in the overall input, so two
\* events with neither at different positions never share a key.
IdentityKeyByOverallPosition ==
    /\ \A k \in 1..Len(consumed) :
        consumed[k].event.data_type = "event"
            => consumed[k].key = ClaimedKey(consumed[k].event, k)
    /\ \A j, k \in 1..Len(consumed) :
        (/\ j # k
         /\ consumed[j].event.data_type = "event"
         /\ consumed[k].event.data_type = "event"
         /\ ~Truthy(Get(consumed[j].event.user_id))
         /\ ~Truthy(Get(consumed[k].event.user_id))
         /\ consumed[j].event.amplitude_id = Absent
         /\ consumed[k].event.amplitude_id = Absent)
        => consumed[j].key # consumed[k].key

\* projectFileInfo is malformed: a str that is not JSON, a value that is not a
\* list, a list element that is no file descriptor, or a filesize that is
\* not numeric.
Malformed(event_properties) ==
    LET raw_files_info == RawFilesInfo(event_properties)
        files_info ==
            IF raw_files_info.type = "str" THEN raw_files_info.loads
            ELSE raw_files_info
    IN  \/ files_info.type # "list"
        \/ \E k \in 1..Len(files_info.items) :
                \/ files_info.items[k].type # "dict"
                \/ /\ files_info.items[k].filesize # <<>>
                   /\ files_info.items[k].filesize[1].int # "int"

\* C11 as claimed: handle_export_event never raises on a malformed
\* projectFileInfo; the record's file-info summary is None, its prompt or
\* export is aggregated all the same, and the records after it are read.
MalformedFileInfoIsSoft ==
    /\ pc_parse # "raised"
    /\ \A k \in 1..Len(consumed) :
        LET event == consumed[k].event
        IN  (Recognized(event) /\ Malformed(event.event_properties)) =>
                /\ ProjectFilesInfo(event.event_properties) = None
                /\ \E a \in 1..Len(user_store) :
                    /\ user_store[a].email = consumed[k].key
                    /\ projects_get(user_store[a],
                            Get(event.event_properties.projectId)) # <<>>

----------------------------------------------------------------------------
(* The formatters, each called on its own on one argument list.            *)

MaxHours == 2

MaxCount == 16

\* Durations: None, and every tenth of a second of some minutes of the hours
\* up to MaxHours.
DurationArgs ==
    {<<PyNone>>} \cup
    {<<Number(h * 36000 + m * 600 + t)>> :
        h \in 0..MaxHours, m \in {0, 1, 59}, t \in 0..599}

\* Byte counts: None, and the counts below 1024^5 with these digits.
ByteArgs ==
    {<<PyNone>>} \cup
    {<<Number(digits)>> :
        digits \in [1..NumDigits -> {0, 1, 2, 128, 500, 512, 1023}]}

\* Metric values: None, the small counts, and counts that differ by less
\* than a thousandth.
Counts ==
    {PyNone} \cup
    {Number(n) : n \in (-2..MaxCount) \cup {90, 100, 110, 3000, 3001, 3002, 3003}}

PercentArgs == Counts \X Counts

FormatInit ==
    /\ \/ fmt_fn = "seconds_to_readable_time" /\ fmt_args \in DurationArgs
       \/ fmt_fn = "format_bytes" /\ fmt_args \in ByteArgs
       \/ fmt_fn = "format_percentage_change" /\ fmt_args \in PercentArgs
    /\ fmt_result = ""
    /\ pc_fmt = "call"
    /\ message_str = <<>>
    /\ i = 0
    /\ sent = <<>>
    /\ pc_send = "idle"
    /\ ParseIdle
    /\ ReportIdle
    /\ JobIdle
    /\ DateIdle

CallSecondsToReadableTime ==
    /\ pc_fmt = "call"
    /\ fmt_fn = "seconds_to_readable_time"
    /\ fmt_result' = seconds_to_readable_time(fmt_args[1])
    /\ pc_fmt' = "done"
    /\ UNCHANGED <<fmt_fn, fmt_args>>
    /\ UNCHANGED <<sendVars, parseVars, reportVars, jobVars, dateVars>>

CallFormatBytes ==
    /\ pc_fmt = "call"
    /\ fmt_fn = "format_bytes"
    /\ fmt_result' = format_bytes(fmt_args[1])
    /\ pc_fmt' = "done"
    /\ UNCHANGED <<fmt_fn, fmt_args>>
    /\ UNCHANGED <<sendVars, parseVars, reportVars, jobVars, dateVars>>

CallFormatPercentageChange ==
    /\ pc_fmt = "call"
    /\ fmt_fn = "format_percentage_change"
    /\ fmt_result' = format_percentage_change(fmt_args[1], fmt_args[2])
    /\ pc_fmt' = "done"
    /\ UNCHANGED <<fmt_fn, fmt_args>>
    /\ UNCHANGED <<sendVars, parseVars, reportVars, jobVars, dateVars>>

FormatNext ==
    CallSecondsToReadableTime \/ CallFormatBytes \/ CallFormatPercentageChange

FormatSpec == FormatInit /\ [][FormatNext]_vars

\* The call of formatter fn has returned.
Returned(fn) == pc_fmt = "done" /\ fmt_fn = fn

\* C13: the duration formatter returns None for None and for 0; for a whole
\* number n > 0 of seconds it returns "<H>h" if H > 0, then "<M>m" if M > 0,
\* then "<S>s" if S > 0 or neither was written, with H = n div 3600,
\* M = (n div 60) mod 60 and S = n mod 60; the result is never empty.
WholeSecondsRendering ==
    Returned("seconds_to_readable_time") =>
        LET seconds == fmt_args[1]
        IN  /\ seconds.type = "NoneType" => fmt_result = None
            /\ seconds.type = "number" =>
                /\ seconds.value = 0 => fmt_result = None
                /\ (seconds.value > 0 /\ seconds.value % 10 = 0) =>
                    LET n == seconds.value \div 10
                        H == n \div 3600
                        M == (n \div 60) % 60
                        S == n % 60
                    IN  /\ fmt_result =
                            (IF H > 0 THEN ToString(H) \o "h" ELSE "") \o
                            (IF M > 0 THEN ToString(M) \o "m" ELSE "") \o
                            (IF S > 0 \/ (H = 0 /\ M = 0)
                             THEN ToString(S) \o "s" ELSE "")
                        /\ fmt_result # ""
                /\ seconds.value = 450 => fmt_result = "45s"
                /\ seconds.value = 900 => fmt_result = "1m30s"
                /\ seconds.value = 36610 => fmt_result = "1h1m1s"

WholeSecondsRenderingWitness ==
    /\ Returned("seconds_to_readable_time")
    /\ fmt_args = <<Number(36610)>>
    /\ fmt_result = "1h1m1s"

\* C14 as claimed: for every positive duration, fractional ones included, a
\* segment whose rounded value is zero is left out, except that the seconds
\* segment is written when hours and minutes are both left out.
ZeroSegmentsOmitted ==
    (/\ Returned("seconds_to_readable_time")
     /\ fmt_args[1].type = "number"
     /\ fmt_args[1].value > 0) =>
        LET tenths == fmt_args[1].value
            H == tenths \div 36000
            M == (tenths \div 600) % 60
            S == RoundHalfEven(tenths % 600, 10)
        IN  fmt_result =
                (IF H > 0 THEN ToString(H) \o "h" ELSE "") \o
                (IF M > 0 THEN ToString(M) \o "m" ELSE "") \o
                (IF S > 0 \/ (H = 0 /\ M = 0) THEN ToString(S) \o "s" ELSE "")

\* C15 as claimed: with a prior value of exactly zero the percentage-change
\* formatter returns the up-100% marker for a current value above zero, the
\* down-100% marker for one below zero, and the about-0% marker otherwise.
ZeroPriorGivesFixedMarker ==
    (/\ Returned("format_percentage_change")
     /\ fmt_args[1].type = "number"
     /\ fmt_args[2].type = "number"
     /\ fmt_args[2].value = 0) =>
        fmt_result =
            IF fmt_args[1].value > 0 THEN "(" \o ARROW_UP \o "100%)"
            ELSE IF fmt_args[1].value < 0 THEN "(" \o ARROW_DOWN \o "100%)"
            ELSE "(" \o ALMOST_EQUAL \o "0%)"

\* An argument that is None or zero.
NoneOrZero(value) == value.type = "NoneType" \/ value.value = 0

\* C16: the percentage-change formatter returns None whenever the current or
\* the prior value is None or zero, so for (0, 0) too; with an argument of 0
\* it never returns a percentage string.
FalsyArgumentGivesNone ==
    Returned("format_percentage_change") =>
        /\ (NoneOrZero(fmt_args[1]) \/ NoneOrZero(fmt_args[2])) => fmt_result = None
        /\ fmt_result = None => (NoneOrZero(fmt_args[1]) \/ NoneOrZero(fmt_args[2]))

FalsyArgumentGivesNoneWitness ==
    /\ Returned("format_percentage_change")
    /\ fmt_args = <<Number(5), Number(0)>>
    /\ fmt_result = None

\* C17: for current and prior values that are not zero, with difference =
\* (current - prior) / prior * 100, the formatter returns the up marker with
\* the difference to one decimal when difference >= 0.1, the down marker with
\* its absolute value when difference < 0, and the about-0% marker exactly
\* when 0 <= difference < 0.1.
NonZeroThresholds ==
    (/\ Returned("format_percentage_change")
     /\ ~NoneOrZero(fmt_args[1])
     /\ ~NoneOrZero(fmt_args[2])) =>
        LET current == fmt_args[1].value
            prior == fmt_args[2].value
            \* difference = num / den, den > 0
            num == IF prior < 0 THEN (prior - current) * 100
                   ELSE (current - prior) * 100
            den == IF prior < 0 THEN -prior ELSE prior
        IN  /\ 10 * num >= den =>
                fmt_result = "(" \o ARROW_UP \o Fixed1(num, den) \o "%)"
            /\ num < 0 =>
                fmt_result = "(" \o ARROW_DOWN \o Fixed1(-num, den) \o "%)"
            /\ fmt_result = "(" \o ALMOST_EQUAL \o "0%)"
                    <=> (0 <= num /\ 10 * num < den)
            /\ (current = 110 /\ prior = 100) =>
                fmt_result = "(" \o ARROW_UP \o "10.0%)"
            /\ (current = 90 /\ prior = 100) =>
                fmt_result = "(" \o ARROW_DOWN \o "10.0%)"

NonZeroThresholdsWitness ==
    /\ Returned("format_percentage_change")
    /\ fmt_args = <<Number(3002), Number(3000)>>
    /\ fmt_result = "(" \o ALMOST_EQUAL \o "0%)"

\* C18: the byte formatter returns None for None and for 0; otherwise the
\* count divided by the threshold of the largest unit of TB, GB, MB, KB that
\* the count reaches (a count equal to the threshold reaches it), with two
\* decimals and the unit; a count of 1..1023 is written whole, with " B".
BytesRendering ==
    Returned("format_bytes") =>
        LET bytes == fmt_args[1]
        IN  /\ bytes.type = "NoneType" => fmt_result = None
            /\ bytes.type = "number" =>
                LET nonzero == {k \in 1..NumDigits : bytes.value[k] # 0}
                    top == CHOOSE k \in nonzero : \A j \in nonzero : j <= k
                IN  /\ nonzero = {} => fmt_result = None
                    /\ (nonzero # {} /\ top = 1) =>
                        fmt_result = ToString(bytes.value[1]) \o " B"
                    /\ (nonzero # {} /\ top > 1) =>
                        fmt_result = Fixed2(bytes.value, top - 1) \o " " \o
                                     <<"KB", "MB", "GB", "TB">>[top - 1]
                    /\ bytes.value = <<500, 0, 0, 0, 0>> => fmt_result = "500 B"
                    /\ bytes.value = <<0, 2, 0, 0, 0>> => fmt_result = "2.00 KB"
                    /\ bytes.value = <<0, 0, 0, 1, 0>> => fmt_result = "1.00 GB"

BytesRenderingWitness ==
    /\ Returned("format_bytes")
    /\ fmt_args = <<Number(<<0, 0, 0, 0, 1>>)>>
    /\ fmt_result = "1.00 TB"

----------------------------------------------------------------------------
(* The report handlers: handle_daily_lambda_event and                      *)
(* handle_weekly_lambda_event, with get_analytics_metrics_data and         *)
(* build_analytics_message.  Of the twenty queries of a period five are    *)
(* modelled, at least one of each category, in the order the source runs   *)
(* them.                                                                   *)

project_creation == "project_creation"

user_activity == "user_activity"

share_activity == "share_activity"

export == "export"

new_user == "new_user"

total_video_duration == "total_video_duration"

export_mp4_landscape_with_captions == "export_mp4_landscape_with_captions"

\* The categories, in the order of the dict that ReportMetrics is built from.
Categories == <<project_creation, user_activity, share_activity, export>>

\* The queries of a period, in the order they are run.
Queries ==
    <<[category |-> project_creation, metric_name |-> "singlecam_project_created"],
      [category |-> user_activity, metric_name |-> new_user],
      [category |-> user_activity, metric_name |-> total_video_duration],
      [category |-> share_activity, metric_name |-> "open_share_link"],
      [category |-> export, metric_name |-> export_mp4_landscape_with_captions]>>

\* What a call comes to: it raises; sum_filtered_amplitude_events returns a
\* number or None; search_auth0_users returns a dict with or without
\* "total", or returns None.
Raise == [kind |-> "raise"]

Result(value) == [kind |-> "result", value |-> value]

Response(total) == [kind |-> "response", total |-> total]

NoResponse == [kind |-> "no_response"]

\* The outcomes each query may have.
QueryOutcomes(k) ==
    CASE k = 1 -> {Raise, Result(PyNone), Result(Number(90))}
      [] k = 2 -> {Raise, NoResponse, Response(<<>>), Response(<<Number(100)>>)}
      [] k = 3 -> {Raise, Result(PyNone), Result(Number(0)),
                   Result(Number(90)), Result(Number(100))}
      [] k = 4 -> {Raise, Result(Number(100))}
      [] k = 5 -> {Raise, Result(PyNone), Result(Number(0)), Result(Number(100))}

\* The call raises, or the statement that uses its result does:
\* response.get("total", 0) on None is an AttributeError.
RaisedOrAbsent(outcome) ==
    \/ outcome.kind \in {"raise", "no_response"}
    \/ outcome.kind = "result" /\ outcome.value.type = "NoneType"

Raised(outcome) == outcome.kind \in {"raise", "no_response"}

\* The value stored for the metric: the result, or response.get("total", 0).
StoredValue(outcome) ==
    IF outcome.kind = "result" THEN outcome.value
    ELSE IF outcome.total = <<>> THEN Number(0)
    ELSE outcome.total[1]

\* The runs of get_analytics_metrics_data from query k on: the outcomes of
\* the queries in order, ending with the first that raises.
RECURSIVE FetchesFrom(_)
FetchesFrom(k) ==
    IF k > Len(Queries) THEN {<<>>}
    ELSE UNION {IF Raised(o) THEN {<<o>>}
                ELSE {<<o>> \o rest : rest \in FetchesFrom(k + 1)} :
                    o \in QueryOutcomes(k)}

Fetches == FetchesFrom(1)

\* get_analytics_metrics_data raised.
FetchRaised(fetch) == \E k \in 1..Len(fetch) : Raised(fetch[k])

\* MetricsData(metrics=...), ReportMetrics(data=...): dicts in insertion order.
MetricsData(metric_type, metrics) == [metric_type |-> metric_type, metrics |-> metrics]

ReportMetrics(categories) == [data |-> categories]

\* get_analytics_metrics_data, when no query raises.
get_analytics_metrics_data(fetch) ==
    LET numbers == [k \in 1..Len(Queries) |-> k]
        metrics_of(category) ==
            LET ks == SelectSeq(numbers, LAMBDA k : Queries[k].category = category)
            IN  [j \in 1..Len(ks) |->
                    [metric_name |-> Queries[ks[j]].metric_name,
                     value |-> StoredValue(fetch[ks[j]])]]
    IN  ReportMetrics([c \in 1..Len(Categories) |->
                          MetricsData(Categories[c], metrics_of(Categories[c]))])

\* A line of the report: its text after the newline, and for a metric line
\* the parts the text was made of.
Line(text, metric_type, metric_name, value, compare_str) ==
    [text |-> text, metric_type |-> metric_type, metric_name |-> metric_name,
     value |-> value, compare_str |-> compare_str]

\* `not value`, and `not value and value != 0` (line 54).
NoDataIfFalsy(value) == value.type = "NoneType" \/ value.value = 0

NoData(value) == value.type = "NoneType"

\* prev_period_metrics_data.data.get(metric_type) and, if it is there,
\* .metrics.get(metric_name): the value, or None.
PrevPeriodValue(prev, metric_type, metric_name) ==
    LET prev_period_data ==
            SelectSeq(prev.data, LAMBDA c : c.metric_type = metric_type)
        found == IF prev_period_data = <<>> THEN <<>>
                 ELSE SelectSeq(prev_period_data[1].metrics,
                                LAMBDA m : m.metric_name = metric_name)
    IN  IF found = <<>> THEN PyNone ELSE found[1].value

\* The line of one metric.
MetricLine(metric_type, metric_name, value, prev) ==
    LET whitespace == "          "
        prev_period_value == PrevPeriodValue(prev, metric_type, metric_name)
        compare_str ==
            IF NoData(prev_period_value)
            THEN "(No data for previous period)"
            ELSE format_percentage_change(value, prev_period_value)
        shown ==
            IF metric_name = total_video_duration
            THEN seconds_to_readable_time(Number(10 * value.value))
            ELSE ToString(value.value)
        indent ==
            IF metric_name = export_mp4_landscape_with_captions
            THEN whitespace \o whitespace
            ELSE whitespace
    IN  IF NoData(value)
        THEN Line(">f" \o whitespace \o "- *" \o metric_name \o ":* No data found",
                  metric_type, metric_name, "", "")
        ELSE Line(">" \o indent \o "- *" \o metric_name \o ":* " \o
                    shown \o " " \o compare_str,
                  metric_type, metric_name, shown, compare_str)

\* The lines of the categories from c on.
RECURSIVE LinesFrom(_, _, _)
LinesFrom(c, current, prev) ==
    IF c > Len(current.data) THEN <<>>
    ELSE LET metric_data == current.data[c]
         IN  <<Line(">*" \o metric_data.metric_type \o ":*",
                    metric_data.metric_type, "", "", "")>>
             \o [m \in 1..Len(metric_data.metrics) |->
                    MetricLine(metric_data.metric_type,
                               metric_data.metrics[m].metric_name,
                               metric_data.metrics[m].value, prev)]
             \o LinesFrom(c + 1, current, prev)

\* build_analytics_message: str_msg, line by line.
build_analytics_message(current, prev) == LinesFrom(1, current, prev)

\* The message of the except clause.
ErrorMessage(handler) ==
    <<Line("> - *Error when preparing message for " \o handler \o " analytics*",
           "", "", "", "")>>

Header(handler) ==
    IF handler = "daily" THEN "Eddie Daily Analytics" ELSE "Eddie Weekly Analytics"

\* services.slack.message_templates.build_slack_template
build_slack_template(header, body) == [header |-> header, message |-> body]

ReportInit ==
    /\ period \in {"daily", "weekly"}
    /\ current_fetch = <<>>
    /\ comparison_fetch = <<>>
    /\ metrics_data = <<>>
    /\ prev_period_metrics_data = <<>>
    /\ message = <<>>
    /\ template = <<>>
    /\ pc_report = "try"
    /\ message_str = <<>>
    /\ i = 0
    /\ sent = <<>>
    /\ pc_send = "idle"
    /\ ParseIdle
    /\ FormatIdle
    /\ JobIdle
    /\ DateIdle

\* The first get_analytics_metrics_data of the try block, and the test of
\* its result: the ReportMetrics it returns is an object, which is never
\* falsy, so the else branch is taken whenever nothing raised.
FetchCurrent ==
    /\ pc_report = "try"
    /\ \E fetch \in Fetches :
        /\ current_fetch' = fetch
        /\ IF FetchRaised(fetch)
           THEN /\ message' = ErrorMessage(period)
                /\ pc_report' = "built"
                /\ UNCHANGED metrics_data
           ELSE /\ metrics_data' = <<get_analytics_metrics_data(fetch)>>
                /\ pc_report' = "else"
                /\ UNCHANGED message
    /\ UNCHANGED <<period, comparison_fetch, prev_period_metrics_data, template>>
    /\ UNCHANGED <<sendVars, parseVars, formatVars, jobVars, dateVars>>

\* The get_analytics_metrics_data of the comparison period.
FetchComparison ==
    /\ pc_report = "else"
    /\ \E fetch \in Fetches :
        /\ comparison_fetch' = fetch
        /\ IF FetchRaised(fetch)
           THEN /\ message' = ErrorMessage(period)
                /\ pc_report' = "built"
                /\ UNCHANGED prev_period_metrics_data
           ELSE /\ prev_period_metrics_data' = <<get_analytics_metrics_data(fetch)>>
                /\ pc_report' = "build"
                /\ UNCHANGED message
    /\ UNCHANGED <<period, current_fetch, metrics_data, template>>
    /\ UNCHANGED <<sendVars, parseVars, formatVars, jobVars, dateVars>>

\* message = build_analytics_message(...)
BuildMessage ==
    /\ pc_report = "build"
    /\ message' = build_analytics_message(metrics_data[1], prev_period_metrics_data[1])
    /\ pc_report' = "built"
    /\ UNCHANGED <<period, current_fetch, comparison_fetch, metrics_data,
                   prev_period_metrics_data, template>>
    /\ UNCHANGED <<sendVars, parseVars, formatVars, jobVars, dateVars>>

\* return build_slack_template(header, message)
ReturnTemplate ==
    /\ pc_report = "built"
    /\ template' = <<build_slack_template(Header(period), message)>>
    /\ pc_report' = "returned"
    /\ UNCHANGED <<period, current_fetch, comparison_fetch, metrics_data,
                   prev_period_metrics_data, message>>
    /\ UNCHANGED <<sendVars, parseVars, formatVars, jobVars, dateVars>>

ReportNext == FetchCurrent \/ FetchComparison \/ BuildMessage \/ ReturnTemplate

ReportSpec == ReportInit /\ [][ReportNext]_vars

\* The lines of a report that are the line of a metric.
MetricLines(lines) == SelectSeq(lines, LAMBDA l : l.metric_name # "")

\* The lines of a report for one metric.
LinesOf(lines, metric_type, metric_name) ==
    SelectSeq(lines, LAMBDA l :
        l.metric_type = metric_type /\ l.metric_name = metric_name)

\* C19 as claimed: the report has exactly one line for every metric of every
\* category of the current period; it is the "No data found" line if and
\* only if the current value is None; otherwise it is
\* "<indent>- <metric name>: <value> <change-string>", whose change-string is
\* "(No data for previous period)" if the comparison period holds no value
\* for the metric and else a percentage-change marker, never "None".
ReportLinesAsClaimed ==
    (pc_report \in {"built", "returned"} /\ prev_period_metrics_data # <<>>) =>
        \A c \in 1..Len(metrics_data[1].data) :
            \A m \in 1..Len(metrics_data[1].data[c].metrics) :
                LET metric_type == metrics_data[1].data[c].metric_type
                    metric == metrics_data[1].data[c].metrics[m]
                    prior == PrevPeriodValue(prev_period_metrics_data[1],
                                             metric_type, metric.metric_name)
                    lines == LinesOf(message, metric_type, metric.metric_name)
                IN  /\ Len(lines) = 1
                    /\ metric.value.type = "NoneType" =>
                        lines[1].text = ">f          - *" \o metric.metric_name
                                        \o ":* No data found"
                    /\ metric.value.type # "NoneType" =>
                        /\ lines[1].text # ">f          - *" \o metric.metric_name
                                           \o ":* No data found"
                        /\ lines[1].compare_str =
                            IF prior.type = "NoneType"
                            THEN "(No data for previous period)"
                            ELSE format_percentage_change(metric.value, prior)
                        /\ lines[1].compare_str # None

\* A call of the fetch that failed as C20 understands it: it raised, or it
\* came to None.
FailedOrAbsent(fetch) ==
    \E k \in 1..Len(fetch) :
        \/ fetch[k].kind = "raise"
        \/ fetch[k].kind = "no_response"
        \/ fetch[k].kind = "result" /\ fetch[k].value.type = "NoneType"

\* A call of the fetch in which something raised.
SomethingRaised(fetch) ==
    \E k \in 1..Len(fetch) : fetch[k].kind \in {"raise", "no_response"}

\* C20 as claimed: if a metrics query or the identity lookup raises or comes
\* to None, in either period, the returned report is the fixed error message
\* and holds no metric line.
AnyFailureGivesErrorReport ==
    (/\ pc_report = "returned"
     /\ FailedOrAbsent(current_fetch) \/ FailedOrAbsent(comparison_fetch)) =>
        /\ template[1].message = ErrorMessage(period)
        /\ MetricLines(template[1].message) = <<>>

\* C20, amended: if a metrics query or the identity lookup raises, or the
\* identity lookup comes to None, in either period, the returned report is
\* the fixed error message and holds no metric line; a metrics query that
\* comes to None fails nothing: unless something raises, the report holds a
\* line for every metric, the "No data found" line for that one.
RaisedFailureGivesErrorReport ==
    pc_report = "returned" =>
        IF SomethingRaised(current_fetch) \/ SomethingRaised(comparison_fetch)
        THEN /\ template[1].message = ErrorMessage(period)
             /\ MetricLines(template[1].message) = <<>>
        ELSE /\ Len(MetricLines(template[1].message)) = Len(Queries)
             /\ \A k \in 1..Len(Queries) :
                    LET lines == LinesOf(template[1].message,
                                         Queries[k].category, Queries[k].metric_name)
                    IN  /\ Len(lines) = 1
                        /\ (current_fetch[k].kind = "result"
                            /\ current_fetch[k].value.type = "NoneType")
                            <=> lines[1].text = ">f          - *"
                                    \o Queries[k].metric_name \o ":* No data found"

RaisedFailureGivesErrorReportWitness ==
    /\ pc_report = "returned"
    /\ period = "weekly"
    /\ ~SomethingRaised(current_fetch)
    /\ FailedOrAbsent(current_fetch)
    /\ Len(comparison_fetch) = Len(Queries)
    /\ comparison_fetch[Len(Queries)] = Raise
    /\ template[1].message = ErrorMessage("weekly")

----------------------------------------------------------------------------
(***************************************************************************)
(* handle_summarizes_user_interactions: one run of the user-interactions   *)
(* job.  Every asyncio.sleep, every call of send_slack_in_thread_message   *)
(* and every call of free_up_disk_space is written to `log` in the order   *)
(* the code makes it.  A UserActivity is here its email together with      *)
(* parsed_str, the text that lines 827-859 join for it; the splitting loop *)
(* is the one modelled above, on message_str and i.                        *)
(***************************************************************************)
MaxUsers == 2

UserEmails == {"user" \o ToString(n) \o "@x.io" : n \in 1..MaxUsers}

\* Texts of one, two and three chunks.
ParsedStrs ==
    {<<"a">>,
     <<"a", NL>> \o [k \in 1..SLACK_MESSAGE_LIMIT |-> "b"],
     [k \in 1..(2 * SLACK_MESSAGE_LIMIT + 1) |-> "a"]}

Users == [email : UserEmails, parsed_str : ParsedStrs]

\* The lists parse_export_data can return: one UserActivity per identity.
DataLists ==
    UNION {{d \in [1..n -> Users] :
                \A j, k \in 1..n : j # k => d[j].email # d[k].email} :
           n \in 0..MaxUsers}

EXPORT_FILEPATH == "/tmp/export_data"

EXTRACTED_DATA_FILEPATH == "/tmp/export_data/<AMPLITUDE_PROJECT_ID>/"

\* asyncio.sleep(1)
Sleep == [op |-> "sleep", seconds |-> 1]

\* services.slack.send_message.send_slack_in_thread_message: the call with
\* its payload and thread_ts, for_user being the user_activity in scope, and
\* what it came to: the "ts" of the response, or raised.
Sending(payload, thread_ts, for_user, ok, ts) ==
    [op |-> "send", payload |-> payload, thread_ts |-> thread_ts,
     for_user |-> for_user, ok |-> ok, ts |-> IF ok THEN ts ELSE None]

\* The identifier the chat system gives the next message.
NewTs(events) == "ts" \o ToString(Len(events) + 1)

\* A dict that forgets its other keys.
SetItemAlone(dict, key, value) == [k \in {key} |-> value]

\* users_thread[key] = value
SetItem(dict, key, value) ==
    [k \in (DOMAIN dict) \cup {key} |-> IF k = key THEN value ELSE dict[k]]

\* free_up_disk_space(to_remove): every error of the removal is caught.
free_up_disk_space(events, to_remove) ==
    IF to_remove = "" THEN events
    ELSE Append(events, [op |-> "free_up_disk_space", to_remove |-> to_remove])

CleanupArchiveOnly(events) ==
    free_up_disk_space(events, EXPORT_FILEPATH \o ".zip")

\* The finally block.
Cleanup(events) ==
    free_up_disk_space(free_up_disk_space(events, EXPORT_FILEPATH \o ".zip"),
                       EXTRACTED_DATA_FILEPATH)

\* Where a failed send of the try block leaves the run.
RetrySend(ok, next) == IF ok THEN next ELSE pc_job

AfterSend(ok, next) == IF ok THEN next ELSE "except"

JobInit ==
    /\ data = <<>>
    /\ users_thread = <<>>
    /\ user_no = 0
    /\ log = <<>>
    /\ raising = FALSE
    /\ pc_job = "fetch"
    /\ message_str = <<>>
    /\ i = 0
    /\ sent = <<>>
    /\ pc_send = "idle"
    /\ ParseIdle
    /\ FormatIdle
    /\ ReportIdle
    /\ DateIdle

\* export_amplitude_events returned a falsy value: one placeholder, return.
FetchNothing ==
    /\ pc_job = "fetch"
    /\ \E ok \in BOOLEAN :
        /\ log' = Append(log, Sending([kind |-> "export_error"], None, None,
                                      ok, NewTs(log)))
        /\ raising' = ~ok
        /\ pc_job' = IF ok THEN "returned" ELSE "raised"
    /\ UNCHANGED <<data, users_thread, user_no>>
    /\ UNCHANGED <<sendVars, parseVars, formatVars, reportVars, dateVars>>

\* export_amplitude_events returned data: the try block is entered.
FetchData ==
    /\ pc_job = "fetch"
    /\ pc_job' = "prepare"
    /\ UNCHANGED <<data, users_thread, user_no, log, raising>>
    /\ UNCHANGED <<sendVars, parseVars, formatVars, reportVars, dateVars>>

\* handle_export_data_response, extract_export_data and parse_export_data
\* raise, or data is what parse_export_data returned.
PrepareData ==
    /\ pc_job = "prepare"
    /\ \/ /\ pc_job' = "except"
          /\ UNCHANGED data
       \/ \E d \in DataLists :
            /\ data' = d
            /\ pc_job' = IF Len(d) = 0 THEN "not_found" ELSE "header"
    /\ UNCHANGED <<users_thread, user_no, log, raising>>
    /\ UNCHANGED <<sendVars, parseVars, formatVars, reportVars, dateVars>>

\* len(data) == 0: the "Export data not found" message.
SendNotFound ==
    /\ pc_job = "not_found"
    /\ \E ok \in BOOLEAN :
        /\ log' = Append(log, Sending([kind |-> "not_found"], None, None,
                                      ok, NewTs(log)))
        /\ pc_job' = AfterSend(ok, "finally")
    /\ UNCHANGED <<data, users_thread, user_no, raising>>
    /\ UNCHANGED <<sendVars, parseVars, formatVars, reportVars, dateVars>>

\* handle_send_daily_users: the report header, sent with no sleep before it,
\* then users_thread = {}.
SendHeader ==
    /\ pc_job = "header"
    /\ \E ok \in BOOLEAN :
        /\ log' = Append(log, Sending([kind |-> "header"], None, None,
                                      ok, NewTs(log)))
        /\ pc_job' = AfterSend(ok, "users")
    /\ users_thread' = <<>>
    /\ user_no' = 1
    /\ UNCHANGED <<data, raising>>
    /\ UNCHANGED <<sendVars, parseVars, formatVars, reportVars, dateVars>>

\* handle_send_daily_users: one iteration of the loop over user_store.
SendUser ==
    /\ pc_job = "users"
    /\ user_no <= Len(data)
    /\ LET activity == data[user_no]
           slept == Append(log, Sleep)
       IN  \E ok \in BOOLEAN :
            /\ log' = Append(slept,
                             Sending([kind |-> "user", idx |-> user_no,
                                      email |-> activity.email],
                                     None, activity.email,
                                     ok, NewTs(slept)))
            /\ IF ok
               THEN /\ users_thread' = SetItem(users_thread,
                                               activity.email,
                                               NewTs(slept))
                    /\ user_no' = user_no + 1
               ELSE UNCHANGED <<users_thread, user_no>>
            /\ pc_job' = AfterSend(ok, "users")
    /\ UNCHANGED <<data, raising>>
    /\ UNCHANGED <<sendVars, parseVars, formatVars, reportVars, dateVars>>

\* handle_send_daily_users: the report footer, sent with no sleep before it,
\* and the return of users_thread to the caller, which calls
\* handle_send_message_by_thread.
SendFooter ==
    /\ pc_job = "users"
    /\ user_no > Len(data)
    /\ \E ok \in BOOLEAN :
        /\ log' = Append(log, Sending([kind |-> "footer"], None, None,
                                      ok, NewTs(log)))
        /\ pc_job' = AfterSend(ok, "threads")
    /\ user_no' = 1
    /\ UNCHANGED <<data, users_thread, raising>>
    /\ UNCHANGED <<sendVars, parseVars, formatVars, reportVars, dateVars>>

\* handle_send_message_by_thread: the next user_activity of the for loop;
\* its text is joined and i starts at 0.
NextUser ==
    /\ pc_job = "threads"
    /\ user_no <= Len(data)
    /\ message_str' = data[user_no].parsed_str
    /\ i' = 0
    /\ pc_job' = "chunks"
    /\ UNCHANGED <<sent, pc_send>>
    /\ UNCHANGED <<data, users_thread, user_no, log, raising>>
    /\ UNCHANGED <<parseVars, formatVars, reportVars, dateVars>>

\* handle_send_message_by_thread: one iteration of the while loop.  The
\* lookup users_thread[email] raises KeyError for a missing key; that and a
\* failed send are re-raised by the except clause of lines 877-879.
SendThreadChunk ==
    /\ pc_job = "chunks"
    /\ i < Len(message_str)
    /\ LET activity == data[user_no]
           end_index == EndIndex(message_str, i)
           text == Message(message_str, i, end_index)
           slept == Append(log, Sleep)
       IN  IF activity.email \notin DOMAIN users_thread
           THEN /\ log' = Append(slept, [op |-> "raise", error |-> "KeyError"])
                /\ pc_job' = "except"
                /\ UNCHANGED <<i, sent>>
           ELSE \E ok \in BOOLEAN :
                    /\ log' = Append(slept,
                                     Sending([kind |-> "chunk", text |-> text],
                                             users_thread[activity.email],
                                             activity.email,
                                             ok, NewTs(slept)))
                    /\ IF ok
                       THEN /\ i' = end_index
                            /\ sent' = Append(sent, text)
                       ELSE UNCHANGED <<i, sent>>
                    /\ pc_job' = AfterSend(ok, "chunks")
    /\ UNCHANGED <<message_str, pc_send>>
    /\ UNCHANGED <<data, users_thread, user_no, raising>>
    /\ UNCHANGED <<parseVars, formatVars, reportVars, dateVars>>

\* handle_send_message_by_thread: the while loop of this user is left.
UserDone ==
    /\ pc_job = "chunks"
    /\ ~(i < Len(message_str))
    /\ user_no' = user_no + 1
    /\ pc_job' = "threads"
    /\ UNCHANGED <<data, users_thread, log, raising>>
    /\ UNCHANGED <<sendVars, parseVars, formatVars, reportVars, dateVars>>

\* handle_send_message_by_thread returns: the try block is done.
ThreadsDone ==
    /\ pc_job = "threads"
    /\ user_no > Len(data)
    /\ pc_job' = "finally"
    /\ UNCHANGED <<data, users_thread, user_no, log, raising>>
    /\ UNCHANGED <<sendVars, parseVars, formatVars, reportVars, dateVars>>

\* except Exception: the error placeholder; a failure of this send
\* propagates once the finally block has run.
SendError ==
    /\ pc_job = "except"
    /\ \E ok \in BOOLEAN :
        /\ log' = Append(log, Sending([kind |-> "prepare_error"], None, None,
                                      ok, NewTs(log)))
        /\ raising' = ~ok
    /\ pc_job' = "finally"
    /\ UNCHANGED <<data, users_thread, user_no>>
    /\ UNCHANGED <<sendVars, parseVars, formatVars, reportVars, dateVars>>

\* finally: both clean-up calls, then the function ends.
Finally ==
    /\ pc_job = "finally"
    /\ log' = Cleanup(log)
    /\ pc_job' = IF raising THEN "raised" ELSE "returned"
    /\ UNCHANGED <<data, users_thread, user_no, raising>>
    /\ UNCHANGED <<sendVars, parseVars, formatVars, reportVars, dateVars>>

JobNext ==
    \/ FetchNothing \/ FetchData \/ PrepareData \/ SendNotFound
    \/ SendHeader \/ SendUser \/ SendFooter
    \/ NextUser \/ SendThreadChunk \/ UserDone \/ ThreadsDone
    \/ SendError \/ Finally

JobSpec == JobInit /\ [][JobNext]_vars

\* The run is sequential code: an enabled step is eventually executed.
JobFairSpec == JobSpec /\ WF_vars(JobNext)

----------------------------------------------------------------------------
(* Properties of the user-interactions run. *)

Sends == {k \in 1..Len(log) : log[k].op = "send"}

SendsOf(kind) == {k \in Sends : log[k].payload.kind = kind}

\* The sends addressed to a thread.
Threaded == {k \in Sends : log[k].thread_ts # None}

FailedChunks == {k \in SendsOf("chunk") : ~log[k].ok}

\* The sending loop of handle_send_message_by_thread has been left for good.
LoopLeft == pc_job \in {"except", "finally", "returned", "raised"}

\* C21: once the send of a threaded chunk has failed, the run is out of the
\* sending loop, and the log holds no threaded send after the failed one:
\* neither the same chunk again, nor a later chunk of that user, nor a
\* chunk of a later user.
SendFailureAborts ==
    \A k \in FailedChunks :
        /\ LoopLeft
        /\ \A j \in Threaded : j <= k

\* A chunk failed while a later user was still waiting for their thread, and
\* the run has ended.
SendFailureAbortsWitness ==
    /\ pc_job \in {"returned", "raised"}
    /\ FailedChunks # {}
    /\ user_no < Len(data)
    /\ i < Len(message_str)

ReportSends ==
    SendsOf("header") \cup SendsOf("user") \cup SendsOf("footer")
        \cup SendsOf("chunk")

\* C25: in a user-interactions run every send of the report (the header,
\* each per-user message, the footer, each threaded chunk) comes directly
\* after a one-second sleep, so that no two sends are adjacent.
EverySendPaced ==
    \A k \in ReportSends :
        /\ k > 1
        /\ log[k - 1] = Sleep

\* The log positions of the sends of one kind, in order.
RECURSIVE InOrder(_)
InOrder(S) ==
    IF S = {} THEN <<>>
    ELSE LET k == CHOOSE x \in S : \A y \in S : x <= y
         IN  <<k>> \o InOrder(S \ {k})

UserSends == InOrder(SendsOf("user"))

\* handle_send_daily_users has returned users_thread.
DailyUsersReturned == \E k \in SendsOf("footer") : log[k].ok

\* C26: the header is the first send; the n-th per-user message is that of
\* the n-th UserActivity and goes to no thread; the footer comes after one
\* per-user message for each UserActivity; the mapping returned has an entry
\* for every identity of the list; and every threaded chunk of a user comes
\* after that user's top-level message, carries the "ts" that message
\* returned as its thread_ts, and never misses its key in the mapping.
ThreadAddressing ==
    /\ \A k \in ReportSends : \E h \in SendsOf("header") :
            h <= k /\ (h < k => log[h].ok)
    /\ Len(UserSends) <= Len(data)
    /\ \A n \in 1..Len(UserSends) :
            /\ log[UserSends[n]].payload.email = data[n].email
            /\ log[UserSends[n]].payload.idx = n
            /\ log[UserSends[n]].thread_ts = None
            /\ n < Len(UserSends) => log[UserSends[n]].ok
    /\ \A f \in SendsOf("footer") :
            /\ Len(UserSends) = Len(data)
            /\ \A k \in SendsOf("user") : k < f /\ log[k].ok
            /\ \A k \in ReportSends : k > f => log[k].payload.kind = "chunk"
    /\ DailyUsersReturned =>
            DOMAIN users_thread = {data[n].email : n \in 1..Len(data)}
    /\ \A c \in SendsOf("chunk") :
            \E k \in SendsOf("user") :
                /\ k < c
                /\ log[k].payload.email = log[c].for_user
                /\ log[k].ok
                /\ log[c].thread_ts = log[k].ts
    /\ \A k \in 1..Len(log) : log[k].op # "raise"

\* A whole run for two users: each got a top-level message and then the
\* chunks of their text in their own thread.
ThreadAddressingWitness ==
    /\ pc_job = "returned"
    /\ Len(data) = 2
    /\ \A n \in 1..2 :
        \E c \in SendsOf("chunk") : log[c].ok /\ log[c].for_user = data[n].email
    /\ \A k \in Sends : log[k].ok
    /\ Cardinality(SendsOf("chunk")) > 2

Ended == pc_job \in {"returned", "raised"}

\* export_amplitude_events returned a falsy value.
FetchedNothing == SendsOf("export_error") # {}

Removal(to_remove) == [op |-> "free_up_disk_space", to_remove |-> to_remove]

Removals == {k \in 1..Len(log) : log[k].op = "free_up_disk_space"}

\* C27: a run whose export fetch returned data ends with the archive and
\* then the extracted-data directory passed to free_up_disk_space, once
\* each, whatever happened in between; a run whose fetch returned a falsy
\* value consists of one error placeholder send and nothing else: no data
\* was parsed and nothing was sent per user.
CleanupAlways ==
    Ended =>
        IF FetchedNothing
        THEN /\ Len(log) = 1
             /\ data = <<>>
             /\ SendsOf("export_error") = {1}
        ELSE /\ Len(log) >= 2
             /\ log[Len(log) - 1] = Removal(EXPORT_FILEPATH \o ".zip")
             /\ log[Len(log)] = Removal(EXTRACTED_DATA_FILEPATH)
             /\ Cardinality(Removals) = 2

\* A send failed inside the try block, the error placeholder failed too, and
\* the run ended with the exception propagating, after the clean-up.
CleanupAlwaysWitness ==
    /\ pc_job = "raised"
    /\ ~FetchedNothing
    /\ \E k \in SendsOf("prepare_error") : ~log[k].ok
    /\ \E k \in SendsOf("chunk") : ~log[k].ok
    /\ Cardinality(Removals) = 2

----------------------------------------------------------------------------
(***************************************************************************)
(* The dates of the reports: get_start_end_of_week_by_offset, the periods  *)
(* handle_daily_lambda_event and handle_weekly_lambda_event pass to        *)
(* get_analytics_metrics_data, and the dates that function asks each of    *)
(* its queries for.  A datetime is its day, counted from a Monday (the     *)
(* time of day is carried along unchanged by the code and formatted away); *)
(* a date string is the day together with the format it is written in.     *)
(***************************************************************************)
MaxDay == 13

MaxOffset == 2

Days == 0..MaxDay

WeekOffsets == (-MaxOffset)..MaxOffset

\* datetime.weekday(): Monday is 0, Sunday is 6.
weekday(day) == day % 7

\* timedelta(days=..., weeks=...), in days.
timedelta(days, weeks) == days + 7 * weeks

\* datetime.strftime(format) and datetime.strptime(string, format); parsing
\* a string written in another format raises ValueError.
strftime(day, format) == [format |-> format, day |-> day]

strptime(string, format) ==
    IF string.format = format THEN <<string.day>> ELSE <<>>

\* `if not week_offset`
NotOffset(week_offset) == week_offset = 0

\* get_start_end_of_week_by_offset(week_offset) called on the day `now`:
\* None, or the tuple (start_of_week, end_of_week).
get_start_end_of_week_by_offset(now, week_offset) ==
    IF NotOffset(week_offset) THEN <<>>
    ELSE LET start_of_week ==
                 now - timedelta(weekday(now), 0) - timedelta(0, week_offset)
             end_of_week == start_of_week + timedelta(6, 0)
         IN  <<start_of_week, end_of_week>>

Period(start_date, end_date) == [start_date |-> start_date, end_date |-> end_date]

\* The date end_date_formatted is parsed from (line 268).
LookupEnd(start_date, end_date) == start_date

\* get_analytics_metrics_data(start_date, end_date): what each query is asked
\* for.  The analytics queries get the two strings as they are; the
\* identity lookup gets "created_at:[... TO ...]", both dates re-formatted.
AskedFor(start_date, end_date) ==
    [k \in 1..Len(Queries) |->
        IF Queries[k].metric_name = new_user
        THEN LET start_date_formatted ==
                     strftime(strptime(start_date, "%Y%m%d")[1], "%Y-%m-%d")
                 end_date_formatted ==
                     strftime(strptime(LookupEnd(start_date, end_date),
                                       "%Y%m%d")[1], "%Y-%m-%d")
             IN  [query |-> Queries[k].metric_name,
                  from |-> start_date_formatted, to |-> end_date_formatted]
        ELSE [query |-> Queries[k].metric_name,
              from |-> start_date, to |-> end_date]]

Handlers == {"handle_daily_lambda_event", "handle_weekly_lambda_event"}

DateInit ==
    /\ today \in Days
    /\ \/ date_call \in
            {<<"get_start_end_of_week_by_offset", w>> : w \in WeekOffsets}
       \/ date_call \in {<<h>> : h \in Handlers}
    /\ week = <<>>
    /\ periods = <<>>
    /\ asked = <<>>
    /\ pc_dates = "call"
    /\ message_str = <<>>
    /\ i = 0
    /\ sent = <<>>
    /\ pc_send = "idle"
    /\ ParseIdle
    /\ FormatIdle
    /\ ReportIdle
    /\ JobIdle

\* A call of get_start_end_of_week_by_offset on its own.
CallWeekOffset ==
    /\ pc_dates = "call"
    /\ date_call[1] = "get_start_end_of_week_by_offset"
    /\ week' = get_start_end_of_week_by_offset(today, date_call[2])
    /\ pc_dates' = "done"
    /\ UNCHANGED <<today, date_call, periods, asked>>
    /\ UNCHANGED <<sendVars, parseVars, formatVars, reportVars, jobVars>>

\* handle_daily_lambda_event: yesterday and comparison_date, each the start
\* and the end of its period.
DailyPeriods ==
    /\ pc_dates = "call"
    /\ date_call[1] = "handle_daily_lambda_event"
    /\ LET yesterday == today - timedelta(1, 0)
           comparison_date == today - timedelta(2, 0)
       IN  periods' =
               <<Period(strftime(yesterday, "%Y%m%d"),
                        strftime(yesterday, "%Y%m%d")),
                 Period(strftime(comparison_date, "%Y%m%d"),
                        strftime(comparison_date, "%Y%m%d"))>>
    /\ pc_dates' = "current"
    /\ UNCHANGED <<today, date_call, week, asked>>
    /\ UNCHANGED <<sendVars, parseVars, formatVars, reportVars, jobVars>>

\* handle_weekly_lambda_event: the previous week and the one before it.
WeeklyPeriods ==
    /\ pc_dates = "call"
    /\ date_call[1] = "handle_weekly_lambda_event"
    /\ LET prev_week == get_start_end_of_week_by_offset(today, 1)
           comparison_week == get_start_end_of_week_by_offset(today, 2)
       IN  periods' =
               <<Period(strftime(prev_week[1], "%Y%m%d"),
                        strftime(prev_week[2], "%Y%m%d")),
                 Period(strftime(comparison_week[1], "%Y%m%d"),
                        strftime(comparison_week[2], "%Y%m%d"))>>
    /\ pc_dates' = "current"
    /\ UNCHANGED <<today, date_call, week, asked>>
    /\ UNCHANGED <<sendVars, parseVars, formatVars, reportVars, jobVars>>

\* get_analytics_metrics_data of the current period.
AskCurrent ==
    /\ pc_dates = "current"
    /\ asked' = Append(asked, AskedFor(periods[1].start_date, periods[1].end_date))
    /\ pc_dates' = "comparison"
    /\ UNCHANGED <<today, date_call, week, periods>>
    /\ UNCHANGED <<sendVars, parseVars, formatVars, reportVars, jobVars>>

\* get_analytics_metrics_data of the comparison period.
AskComparison ==
    /\ pc_dates = "comparison"
    /\ asked' = Append(asked, AskedFor(periods[2].start_date, periods[2].end_date))
    /\ pc_dates' = "done"
    /\ UNCHANGED <<today, date_call, week, periods>>
    /\ UNCHANGED <<sendVars, parseVars, formatVars, reportVars, jobVars>>

DateNext ==
    CallWeekOffset \/ DailyPeriods \/ WeeklyPeriods \/ AskCurrent \/ AskComparison

DateSpec == DateInit /\ [][DateNext]_vars

\* The Monday of the week a day lies in.
MondayOf(day) == CHOOSE m \in (day - 6)..day : weekday(m) = 0

WeekReturned ==
    pc_dates = "done" /\ date_call[1] = "get_start_end_of_week_by_offset"

\* C22: for every week offset, 0 included, get_start_end_of_week_by_offset
\* returns a pair (start, end): start is the Monday of the week that lies
\* week_offset weeks before the current one, and end is the Sunday of that
\* week, six days after start.
WeekOfEveryOffset ==
    WeekReturned =>
        /\ Len(week) = 2
        /\ week[1] = MondayOf(today) - 7 * date_call[2]
        /\ weekday(week[1]) = 0
        /\ week[2] = week[1] + 6
        /\ weekday(week[2]) = 6

\* C28: in every period of a report the identity lookup for new users is
\* asked for the same days, first to last, as the analytics queries of that
\* period.
LookupCoversPeriod ==
    \A p \in 1..Len(asked) :
        \A k, n \in 1..Len(asked[p]) :
            asked[p][k].query = new_user =>
                /\ asked[p][k].from.day = asked[p][n].from.day
                /\ asked[p][k].to.day = asked[p][n].to.day

----------------------------------------------------------------------------
(* Further properties of the aggregator. *)

\* C23: a step of the loop that reads a record whose data_type is not
\* "event", or an event of a type other than prompt submission,
\* prompt-suggestion click and export success, leaves the store as it was:
\* every UserActivity, every ProjectInfo with its file_info, and every
\* prompt and export sequence.
UnrecognizedChangesNothing ==
    [][(index' = index + 1 /\ file_no' = file_no) =>
            LET read == IF pc_parse' = "raised" THEN raised_on'[1]
                        ELSE consumed'[Len(consumed')]
            IN  ~Recognized(read.event) =>
                    /\ user_store' = user_store
                    /\ activities' = activities]_vars

\* A recognized event filled the store, then an event of another type and a
\* record that is no event were read.
UnrecognizedChangesNothingWitness ==
    /\ Len(consumed) = 3
    /\ Recognized(consumed[1].event)
    /\ consumed[2].event.data_type = "event"
    /\ ~Recognized(consumed[2].event)
    /\ consumed[2].key # consumed[1].key
    /\ consumed[3].event.data_type # "event"
    /\ Len(user_store) = 1

\* A sequence without its repetitions, each value at its first place.
RECURSIVE Dedup(_)
Dedup(seq) ==
    IF seq = <<>> THEN <<>>
    ELSE LET front == Dedup(SubSeq(seq, 1, Len(seq) - 1))
             last == seq[Len(seq)]
         IN  IF \E k \in 1..Len(front) : front[k] = last THEN front
             ELSE Append(front, last)

\* The recognized events read so far, in arrival order.
RecognizedRead == SelectSeq(consumed, LAMBDA h : Recognized(h.event))

\* C24: the store holds one UserActivity per identity key committed, in the
\* order in which the keys were first committed, and each UserActivity
\* holds one ProjectInfo per project key, in the order in which the keys
\* first appeared for it; an event of a known identity or project therefore
\* never adds an entry and never moves one.  The list returned is the
\* store's.
StoreUniqueInOrder ==
    /\ [a \in 1..Len(user_store) |-> user_store[a].email] =
            Dedup([k \in 1..Len(RecognizedRead) |-> RecognizedRead[k].key])
    /\ \A a \in 1..Len(user_store) :
        LET events == SelectSeq(RecognizedRead,
                                LAMBDA h : h.key = user_store[a].email)
        IN  [p \in 1..Len(user_store[a].projects) |->
                    user_store[a].projects[p].project_id] =
                Dedup([k \in 1..Len(events) |->
                        Get(events[k].event.event_properties.projectId)])
    /\ pc_parse = "returned" => activities = user_store

\* Two identities; the first got its second project after the second
\* identity was committed, and stayed first.
StoreUniqueInOrderWitness ==
    /\ pc_parse = "returned"
    /\ Len(activities) = 2
    /\ Len(consumed) = 3
    /\ Len(activities[1].projects) = 2
    /\ consumed[2].key = activities[2].email
    /\ consumed[3].key = activities[1].email

\* projectFileInfo is a non-empty list of file descriptors, given as a list
\* or as its JSON encoding, each with an integer filesize or none.
DescriptorList(event_properties) ==
    LET raw_files_info == RawFilesInfo(event_properties)
        files_info ==
            IF raw_files_info.type = "str" THEN raw_files_info.loads
            ELSE raw_files_info
    IN  /\ files_info.type = "list"
        /\ Len(files_info.items) > 0
        /\ \A k \in 1..Len(files_info.items) :
                ElementError(files_info.items[k]) = "none"

Descriptors(event_properties) ==
    LET raw_files_info == RawFilesInfo(event_properties)
    IN  IF raw_files_info.type = "str" THEN raw_files_info.loads.items
        ELSE raw_files_info.items

\* The byte count of a descriptor: its filesize, 0 when it has none.
SizeOf(file) ==
    Number(ToDigits(IF file.filesize = <<>> THEN 0 ELSE file.filesize[1].value))

\* C29: the file-info summary stored for a recognized event whose
\* projectFileInfo is a non-empty list of descriptors is the list, in input
\* order and joined by ", ", of "<filename> (<size>)", and every <size> is a
\* byte-size string with a unit, never the rendered None, also for a
\* descriptor whose filesize is 0 or missing.
FileInfoSummaryRendering ==
    consumed # <<>> =>
        LET h == consumed[Len(consumed)]
            event_properties == h.event.event_properties
            files == Descriptors(event_properties)
        IN  (Recognized(h.event) /\ DescriptorList(event_properties)) =>
                /\ \A k \in 1..Len(files) : format_bytes(SizeOf(files[k])) # None
                /\ \E a \in 1..Len(user_store) :
                    /\ user_store[a].email = h.key
                    /\ LET project == projects_get(user_store[a],
                                                   Get(event_properties.projectId))
                       IN  /\ Len(project) = 1
                           /\ project[1].file_info =
                                Join([k \in 1..Len(files) |->
                                        files[k].filename \o " (" \o
                                        format_bytes(SizeOf(files[k])) \o ")"])

----------------------------------------------------------------------------
(* A further property of the duration formatter. *)

\* How a component of value v may be written: as "<v><unit>", or left out
\* when it is 0.
Segments(v, unit) ==
    {ToString(v) \o unit} \cup (IF v = 0 THEN {""} ELSE {})

Renderings(H, M, S) ==
    {h \o m \o s :
        h \in Segments(H, "h"), m \in Segments(M, "m"), s \in Segments(S, "s")}

\* The strings whose minutes and seconds components are 0..59.
InRangeRenderings ==
    UNION {Renderings(H, M, S) : H \in 0..MaxHours, M \in 0..59, S \in 0..59}

\* C30: for every positive duration, fractional ones included, the minutes
\* and the seconds written by seconds_to_readable_time are integers from 0 to
\* 59, never 60; and for a whole number of seconds the components written
\* are the H, M, S with H*3600 + M*60 + S equal to the input.
ComponentsInRange ==
    (/\ Returned("seconds_to_readable_time")
     /\ fmt_args[1].type = "number"
     /\ fmt_args[1].value > 0) =>
        /\ fmt_result \in InRangeRenderings
        /\ fmt_args[1].value % 10 = 0 =>
            LET n == fmt_args[1].value \div 10
            IN  fmt_result \in Renderings(n \div 3600, (n \div 60) % 60, n % 60)

====
